---- MODULE Spec2Model ----
(***************************************************************************)
(* Book Library API: the service layer (services/), its validators         *)
(* (validators/), the ORM models (models.py) and the book listing route    *)
(* (routes/books.py), modelled as a state machine over one SQLAlchemy      *)
(* session and the committed database.                                     *)
(*                                                                         *)
(* Strings are sequences of one-character strings.  Untyped Python values  *)
(* of an input record are tagged records: VNone, VStr(s), VInt(n),         *)
(* VList(l).  An input record (a dict) is a function from the keys that    *)
(* are present to such values.                                             *)
(***************************************************************************)
EXTENDS Integers, Sequences, FiniteSets, TLC

(***************************************************************************)
(* Bounds of the model                                                     *)
(***************************************************************************)
MaxId == 2
MaxTime == 1
MaxOps == 5
MaxIsbnDigits == 14

(***************************************************************************)
(* Python values                                                           *)
(***************************************************************************)
VNone == [t |-> "none"]
VStr(s) == [t |-> "str", v |-> s]
VInt(n) == [t |-> "int", v |-> n]
VList(l) == [t |-> "list", v |-> l]

NoBound == 0 - 1

Digits == {"0", "1", "2", "3", "4", "5", "6", "7", "8", "9"}

DigitVal(c) ==
  CASE c = "0" -> 0 [] c = "1" -> 1 [] c = "2" -> 2 [] c = "3" -> 3
    [] c = "4" -> 4 [] c = "5" -> 5 [] c = "6" -> 6 [] c = "7" -> 7
    [] c = "8" -> 8 [] c = "9" -> 9 [] OTHER -> 0

DigitChar(n) ==
  CASE n = 0 -> "0" [] n = 1 -> "1" [] n = 2 -> "2" [] n = 3 -> "3"
    [] n = 4 -> "4" [] n = 5 -> "5" [] n = 6 -> "6" [] n = 7 -> "7"
    [] n = 8 -> "8" [] OTHER -> "9"

IsSpace(c) == c = " "

RECURSIVE lstrip(_)
lstrip(s) == IF s # <<>> /\ IsSpace(Head(s)) THEN lstrip(Tail(s)) ELSE s

RECURSIVE rstrip(_)
rstrip(s) ==
  IF s # <<>> /\ IsSpace(s[Len(s)]) THEN rstrip(SubSeq(s, 1, Len(s) - 1)) ELSE s

\* str.strip()
strip(s) == rstrip(lstrip(s))

\* str.isdigit()
isdigit(s) == s # <<>> /\ \A i \in 1..Len(s) : s[i] \in Digits

\* str.replace(c, '')
RECURSIVE remove(_, _)
remove(s, c) ==
  IF s = <<>> THEN <<>>
  ELSE IF Head(s) = c THEN remove(Tail(s), c)
  ELSE <<Head(s)>> \o remove(Tail(s), c)

RECURSIVE DigitsValue(_)
DigitsValue(s) ==
  IF s = <<>> THEN 0 ELSE DigitsValue(SubSeq(s, 1, Len(s) - 1)) * 10 + DigitVal(s[Len(s)])

RECURSIVE NatToStr(_)
NatToStr(n) == IF n < 10 THEN <<DigitChar(n)>> ELSE NatToStr(n \div 10) \o <<DigitChar(n % 10)>>

\* str(x)
PyStr(x) ==
  CASE x.t = "str" -> x.v
    [] x.t = "int" -> IF x.v < 0 THEN <<"-">> \o NatToStr(0 - x.v) ELSE NatToStr(x.v)
    [] x.t = "none" -> <<"N", "o", "n", "e">>
    [] OTHER -> <<"[", "]">>

\* int(x): [ok |-> FALSE] stands for ValueError / TypeError
PyInt(x) ==
  CASE x.t = "int" -> [ok |-> TRUE, v |-> x.v]
    [] x.t = "str" ->
         LET s == strip(x.v)
             neg == s # <<>> /\ Head(s) = "-"
             d == IF neg THEN Tail(s) ELSE s
         IN IF isdigit(d)
            THEN [ok |-> TRUE, v |-> IF neg THEN 0 - DigitsValue(d) ELSE DigitsValue(d)]
            ELSE [ok |-> FALSE, v |-> 0]
    [] OTHER -> [ok |-> FALSE, v |-> 0]

\* truth value of x
Truthy(x) ==
  CASE x.t = "none" -> FALSE
    [] x.t = "int" -> x.v # 0
    [] OTHER -> x.v # <<>>

\* data.get(key)
Get(data, key) == IF key \in DOMAIN data THEN data[key] ELSE VNone

(***************************************************************************)
(* Exceptions                                                              *)
(***************************************************************************)
NoError == [exc |-> "none", field |-> "", info |-> VNone]
ValidationError(field, reason) ==
  [exc |-> "ValidationError", field |-> field, info |-> VStr(<<reason>>)]
ValidationErrorWith(field, info) ==
  [exc |-> "ValidationError", field |-> field, info |-> info]
BookNotFoundError(id) == [exc |-> "BookNotFoundError", field |-> "", info |-> VInt(id)]
AuthorNotFoundError(x) == [exc |-> "AuthorNotFoundError", field |-> "", info |-> x]
CategoryNotFoundError(id) == [exc |-> "CategoryNotFoundError", field |-> "", info |-> VInt(id)]
DuplicateISBNError(x) == [exc |-> "DuplicateISBNError", field |-> "", info |-> x]
DuplicateCategoryError(x) == [exc |-> "DuplicateCategoryError", field |-> "", info |-> x]
\* an exception that is not a BookLibraryError (AttributeError, TypeError)
PythonError(kind) == [exc |-> kind, field |-> "", info |-> VNone]
DatabaseError == [exc |-> "DatabaseError", field |-> "", info |-> VNone]

\* the first error raised by two statements in sequence
Then(e1, e2) == IF e1 # NoError THEN e1 ELSE e2

(***************************************************************************)
(* validators/base_validator.py                                            *)
(***************************************************************************)
validate_required_field(data, field) ==
  IF field \notin DOMAIN data \/ data[field] = VNone \/ data[field] = VStr(<<>>)
  THEN ValidationError(field, "missing")
  ELSE NoError

validate_string_length(value, field, min_length, max_length) ==
  IF value = VNone THEN NoError
  ELSE IF value.t # "str" THEN PythonError("AttributeError")
  ELSE LET value_length == Len(strip(value.v)) IN
       IF min_length # NoBound /\ value_length < min_length
       THEN ValidationError(field, "too short")
       ELSE IF max_length # NoBound /\ Len(value.v) > max_length
       THEN ValidationError(field, "too long")
       ELSE NoError

validate_not_only_digits(value, field) ==
  IF ~Truthy(value) THEN NoError
  ELSE IF value.t # "str" THEN PythonError("AttributeError")
  ELSE IF isdigit(strip(value.v)) THEN ValidationError(field, "only digits")
  ELSE NoError

validate_not_empty(value, field) ==
  IF ~Truthy(value) THEN ValidationError(field, "empty")
  ELSE IF value.t # "str" THEN PythonError("AttributeError")
  ELSE IF strip(value.v) = <<>> THEN ValidationError(field, "empty")
  ELSE NoError

validate_integer_range(value, field, min_value, max_value) ==
  IF value = VNone THEN NoError
  ELSE LET i == PyInt(value) IN
       IF ~i.ok THEN ValidationError(field, "not a number")
       ELSE IF min_value # NoBound /\ i.v < min_value
       THEN ValidationError(field, "too small")
       ELSE IF max_value # NoBound /\ i.v > max_value
       THEN ValidationError(field, "too large")
       ELSE NoError

\* item_type is always int in this repository
validate_list_type(value, field) ==
  IF value = VNone THEN NoError
  ELSE IF value.t # "list" THEN ValidationError(field, "not a list")
  ELSE IF \E i \in 1..Len(value.v) : ~PyInt(value.v[i]).ok
  THEN ValidationError(field, "not integers")
  ELSE NoError

validate_no_duplicates(value, field) ==
  IF Truthy(value) /\ value.t = "list"
     /\ Len(value.v) # Cardinality({value.v[i] : i \in 1..Len(value.v)})
  THEN ValidationError(field, "duplicates")
  ELSE NoError

(***************************************************************************)
(* validators/book_validator.py                                            *)
(***************************************************************************)
MIN_YEAR == 1000
MIN_PAGES == 1
MAX_PAGES == 50000
MAX_TITLE_LENGTH == 300
MAX_DESCRIPTION_LENGTH == 5000
MIN_ISBN_LENGTH == 10
MAX_ISBN_LENGTH == 13
MAX_CATEGORIES == 10

\* datetime.now().year
current_year == 2026

RECURSIVE FirstError(_)
FirstError(errs) ==
  IF errs = <<>> THEN NoError
  ELSE IF Head(errs) # NoError THEN Head(errs)
  ELSE FirstError(Tail(errs))

validate_required_fields(data) ==
  FirstError(<<validate_required_field(data, "title"),
               validate_required_field(data, "isbn"),
               validate_required_field(data, "year"),
               validate_required_field(data, "author_id")>>)

validate_title(title) ==
  Then(validate_not_empty(title, "title"),
       validate_string_length(title, "title", 1, MAX_TITLE_LENGTH))

\* validate_isbn testing the length against a range, MIN_ISBN_LENGTH to
\* MAX_ISBN_LENGTH, instead of the two lengths
validate_isbn_length_range(isbn) ==
  LET clean_isbn == remove(remove(PyStr(isbn), "-"), " ") IN
  IF ~isdigit(clean_isbn) THEN ValidationError("isbn", "not digits")
  ELSE IF Len(clean_isbn) < MIN_ISBN_LENGTH \/ Len(clean_isbn) > MAX_ISBN_LENGTH
  THEN ValidationError("isbn", "bad length")
  ELSE NoError

validate_isbn(isbn) ==
  LET clean_isbn == remove(remove(PyStr(isbn), "-"), " ") IN
  IF ~isdigit(clean_isbn) THEN ValidationError("isbn", "not digits")
  ELSE IF Len(clean_isbn) \notin {MIN_ISBN_LENGTH, MAX_ISBN_LENGTH}
  THEN ValidationError("isbn", "bad length")
  ELSE NoError

validate_year(year) == validate_integer_range(year, "year", MIN_YEAR, current_year)

validate_pages(pages) ==
  IF pages # VNone THEN validate_integer_range(pages, "pages", MIN_PAGES, MAX_PAGES)
  ELSE NoError

validate_description(description) ==
  IF description # VNone
  THEN validate_string_length(description, "description", NoBound, MAX_DESCRIPTION_LENGTH)
  ELSE NoError

validate_category_ids(category_ids) ==
  IF category_ids = VNone THEN NoError
  ELSE FirstError(<<validate_list_type(category_ids, "category_ids"),
                    validate_no_duplicates(category_ids, "category IDs"),
                    IF category_ids.t = "list" /\ Len(category_ids.v) > MAX_CATEGORIES
                    THEN ValidationError("category_ids", "too many")
                    ELSE NoError>>)

\* validate_book_data with validate_isbn called before validate_title
validate_book_data_isbn_first(data, is_update) ==
  FirstError(<<IF ~is_update THEN validate_required_fields(data) ELSE NoError,
               IF "isbn" \in DOMAIN data THEN validate_isbn(data["isbn"]) ELSE NoError,
               IF "title" \in DOMAIN data THEN validate_title(data["title"]) ELSE NoError,
               IF "year" \in DOMAIN data THEN validate_year(data["year"]) ELSE NoError,
               IF "pages" \in DOMAIN data THEN validate_pages(data["pages"]) ELSE NoError,
               IF "description" \in DOMAIN data
               THEN validate_description(data["description"]) ELSE NoError,
               IF "category_ids" \in DOMAIN data
               THEN validate_category_ids(data["category_ids"]) ELSE NoError>>)

validate_book_data(data, is_update) ==
  FirstError(<<IF ~is_update THEN validate_required_fields(data) ELSE NoError,
               IF "title" \in DOMAIN data THEN validate_title(data["title"]) ELSE NoError,
               IF "isbn" \in DOMAIN data THEN validate_isbn(data["isbn"]) ELSE NoError,
               IF "year" \in DOMAIN data THEN validate_year(data["year"]) ELSE NoError,
               IF "pages" \in DOMAIN data THEN validate_pages(data["pages"]) ELSE NoError,
               IF "description" \in DOMAIN data
               THEN validate_description(data["description"]) ELSE NoError,
               IF "category_ids" \in DOMAIN data
               THEN validate_category_ids(data["category_ids"]) ELSE NoError>>)

(***************************************************************************)
(* validators/author_validator.py                                          *)
(***************************************************************************)
AUTHOR_MIN_NAME_LENGTH == 2
AUTHOR_MAX_NAME_LENGTH == 200
MAX_BIO_LENGTH == 2000
MAX_COUNTRY_LENGTH == 100

validate_author_name(name) ==
  FirstError(<<validate_not_empty(name, "author name"),
               validate_string_length(name, "author name",
                                      AUTHOR_MIN_NAME_LENGTH, AUTHOR_MAX_NAME_LENGTH),
               validate_not_only_digits(name, "author name")>>)

validate_bio(bio) ==
  IF bio # VNone THEN validate_string_length(bio, "biography", NoBound, MAX_BIO_LENGTH)
  ELSE NoError

validate_country(country) ==
  IF country # VNone
  THEN Then(validate_string_length(country, "country name", NoBound, MAX_COUNTRY_LENGTH),
            validate_not_only_digits(country, "country name"))
  ELSE NoError

validate_author_data(data, is_update) ==
  FirstError(<<IF ~is_update THEN validate_required_field(data, "name") ELSE NoError,
               IF "name" \in DOMAIN data THEN validate_author_name(data["name"]) ELSE NoError,
               IF "bio" \in DOMAIN data THEN validate_bio(data["bio"]) ELSE NoError,
               IF "country" \in DOMAIN data THEN validate_country(data["country"])
               ELSE NoError>>)

(***************************************************************************)
(* validators/category_validator.py                                        *)
(***************************************************************************)
CATEGORY_MIN_NAME_LENGTH == 2
CATEGORY_MAX_NAME_LENGTH == 100
CATEGORY_MAX_DESCRIPTION_LENGTH == 500

validate_category_name(name) ==
  FirstError(<<validate_not_empty(name, "category name"),
               validate_string_length(name, "category name",
                                      CATEGORY_MIN_NAME_LENGTH, CATEGORY_MAX_NAME_LENGTH),
               validate_not_only_digits(name, "category name")>>)

validate_category_description(description) ==
  IF description # VNone
  THEN validate_string_length(description, "category description",
                              NoBound, CATEGORY_MAX_DESCRIPTION_LENGTH)
  ELSE NoError

validate_category_data(data, is_update) ==
  FirstError(<<IF ~is_update THEN validate_required_field(data, "name") ELSE NoError,
               IF "name" \in DOMAIN data THEN validate_category_name(data["name"])
               ELSE NoError,
               IF "description" \in DOMAIN data
               THEN validate_category_description(data["description"]) ELSE NoError>>)

(***************************************************************************)
(* validators/pagination_validator.py                                      *)
(***************************************************************************)
MIN_PAGE == 1
MIN_PER_PAGE == 1
MAX_PER_PAGE == 100
DEFAULT_PAGE == 1
DEFAULT_PER_PAGE == 10

\* returns [err, page, per_page]; page and per_page are meaningful when err = NoError
validate_pagination(page, per_page) ==
  LET p == IF page # VNone THEN page ELSE VInt(DEFAULT_PAGE)
      pp == IF per_page # VNone THEN per_page ELSE VInt(DEFAULT_PER_PAGE)
      err == Then(validate_integer_range(p, "page", MIN_PAGE, NoBound),
                  validate_integer_range(pp, "per_page", MIN_PER_PAGE, MAX_PER_PAGE))
  IN [err |-> err, page |-> PyInt(p).v, per_page |-> PyInt(pp).v]

(***************************************************************************)
(* State                                                                   *)
(*                                                                         *)
(* db      the committed database: three tables, each a function from the  *)
(*         primary keys in use to the row; the book_categories rows of a   *)
(*         Book are the set categories of its row.                         *)
(* sess    the database as db.session sees it: db plus the changes the     *)
(*         session has made and neither committed nor rolled back.  Every  *)
(*         read of the services goes through the session (identity map,    *)
(*         autoflush before a query).                                      *)
(* now     the clock behind datetime.utcnow.                               *)
(* nops    the number of service calls made so far.                        *)
(* request the query string of the HTTP list request being served, a       *)
(*         function from the parameters present to their text.             *)
(* result  the last call: its name, arguments, the exception it raised,    *)
(*         the rows it changed in the session and what it returned.        *)
(* inflight  per worker (a thread with a session of its own), the service  *)
(*         call it is running: where the call is, its arguments, the       *)
(*         exception it raised.                                            *)
(***************************************************************************)
VARIABLES db, sess, now, nops, request, result, inflight

vars == <<db, sess, now, nops, request, result, inflight>>

EmptyStore == [authors |-> <<>>, books |-> <<>>, categories |-> <<>>]

Max(S) == CHOOSE x \in S : \A y \in S : y <= x

\* models.py: id = db.Column(db.Integer, primary_key=True); the default
\* database (database.py) is SQLite, whose rowid is one more than the largest in use
NextId(table) == IF DOMAIN table = {} THEN 1 ELSE Max(DOMAIN table) + 1

Insert(table, id, row) == [i \in DOMAIN table \cup {id} |-> IF i = id THEN row ELSE table[i]]

Delete(table, id) == [i \in DOMAIN table \ {id} |-> table[i]]

\* the primary key a value is compared as by the database
PkOf(x) == IF PyInt(x).ok THEN PyInt(x).v ELSE 0

\* BooksWithIsbn looking at the title column instead of the isbn column: the
\* variant under which the uniqueness of isbn is not enforced
BooksWithIsbn_on_title(view, isbn) == {b \in DOMAIN view.books : view.books[b].title = isbn}

\* Book.query.filter_by(isbn=isbn)
BooksWithIsbn(view, isbn) == {b \in DOMAIN view.books : view.books[b].isbn = isbn}

\* Category.query.filter_by(name=name)
CategoriesWithName(view, name) ==
  {c \in DOMAIN view.categories : view.categories[c].name = name}

\* models.py: Book.isbn unique=True, Category.name unique=True
IntegrityViolation(view) ==
  \/ \E b \in DOMAIN view.books : BooksWithIsbn(view, view.books[b].isbn) \ {b} # {}
  \/ \E c \in DOMAIN view.categories :
        CategoriesWithName(view, view.categories[c].name) \ {c} # {}

\* author.books (lazy='dynamic'): the Books whose author_id is the author's id
BooksOf(view, author_id) == {b \in DOMAIN view.books : view.books[b].author_id = author_id}

\* The outcome of the body of a service call: the exception raised (or
\* NoError), the session's view when the call returns, and whether the call
\* reached db.session.commit() without a rollback.
Raised(err, view) == [err |-> err, view |-> view, committed |-> FALSE]
Committed(view) == [err |-> NoError, view |-> view, committed |-> TRUE]

(***************************************************************************)
(* services/author_service.py                                              *)
(***************************************************************************)
get_author_by_id(view, author_id) ==
  IF author_id \in DOMAIN view.authors THEN NoError
  ELSE AuthorNotFoundError(VInt(author_id))

_create_author_object(data) ==
  [name |-> strip(data["name"].v),
   bio |-> IF Truthy(Get(data, "bio")) THEN VStr(strip(data["bio"].v)) ELSE VNone,
   country |-> IF Truthy(Get(data, "country")) THEN VStr(strip(data["country"].v))
               ELSE VNone,
   created_at |-> now]

create_author(view, data) ==
  IF validate_author_data(data, FALSE) # NoError
  THEN Raised(validate_author_data(data, FALSE), view)
  ELSE LET author == _create_author_object(data)
           id == NextId(view.authors)
       IN Committed([view EXCEPT !.authors = Insert(@, id, author)])

\* _update_author_fields assigning data.get('bio') whether or not the key is
\* present: the variant under which an update is not partial
_update_author_fields_with_get(author, data) ==
  LET a1 == IF "name" \in DOMAIN data
            THEN [author EXCEPT !.name = strip(data["name"].v)] ELSE author
      a2 == [a1 EXCEPT !.bio = IF Truthy(Get(data, "bio"))
                               THEN VStr(strip(data["bio"].v)) ELSE VNone]
  IN IF "country" \in DOMAIN data
     THEN [a2 EXCEPT !.country = IF Truthy(data["country"])
                                 THEN VStr(strip(data["country"].v)) ELSE VNone]
     ELSE a2

_update_author_fields(author, data) ==
  LET a1 == IF "name" \in DOMAIN data
            THEN [author EXCEPT !.name = strip(data["name"].v)] ELSE author
      a2 == IF "bio" \in DOMAIN data
            THEN [a1 EXCEPT !.bio = IF Truthy(data["bio"]) THEN VStr(strip(data["bio"].v))
                                    ELSE VNone]
            ELSE a1
  IN IF "country" \in DOMAIN data
     THEN [a2 EXCEPT !.country = IF Truthy(data["country"])
                                 THEN VStr(strip(data["country"].v)) ELSE VNone]
     ELSE a2

update_author(view, author_id, data) ==
  IF validate_author_data(data, TRUE) # NoError
  THEN Raised(validate_author_data(data, TRUE), view)
  ELSE IF get_author_by_id(view, author_id) # NoError
  THEN Raised(get_author_by_id(view, author_id), view)
  ELSE Committed([view EXCEPT !.authors[author_id] = _update_author_fields(@, data)])

\* base_service.py safe_delete of an Author: Author.books has
\* cascade='all, delete-orphan', so the Author's Books are deleted with it
safe_delete_author(view, author_id) ==
  Committed([view EXCEPT !.authors = Delete(@, author_id),
                         !.books = [b \in DOMAIN @ \ BooksOf(view, author_id) |-> @[b]]])

\* delete_author without the book_count guard: the variant under which the
\* cascade of Author.books removes the Author's Books
delete_author_unguarded(view, author_id) ==
  IF get_author_by_id(view, author_id) # NoError
  THEN Raised(get_author_by_id(view, author_id), view)
  ELSE safe_delete_author(view, author_id)

delete_author(view, author_id) ==
  IF get_author_by_id(view, author_id) # NoError
  THEN Raised(get_author_by_id(view, author_id), view)
  ELSE LET book_count == Cardinality(BooksOf(view, author_id)) IN
       IF book_count > 0
       THEN Raised(ValidationErrorWith("", VInt(book_count)), view)
       ELSE safe_delete_author(view, author_id)

(***************************************************************************)
(* services/category_service.py                                            *)
(***************************************************************************)
get_category_by_id(view, category_id) ==
  IF category_id \in DOMAIN view.categories THEN NoError
  ELSE CategoryNotFoundError(category_id)

\* _create_category_object storing the name as given, without strip()
_create_category_object_unstripped(data) ==
  [name |-> data["name"].v,
   description |-> IF Truthy(Get(data, "description"))
                   THEN VStr(strip(data["description"].v)) ELSE VNone,
   created_at |-> now]

_create_category_object(data) ==
  [name |-> strip(data["name"].v),
   description |-> IF Truthy(Get(data, "description"))
                   THEN VStr(strip(data["description"].v)) ELSE VNone,
   created_at |-> now]

_check_duplicate_name(view, name) ==
  IF CategoriesWithName(view, strip(name.v)) # {} THEN DuplicateCategoryError(name)
  ELSE NoError

create_category(view, data) ==
  IF validate_category_data(data, FALSE) # NoError
  THEN Raised(validate_category_data(data, FALSE), view)
  ELSE IF _check_duplicate_name(view, data["name"]) # NoError
  THEN Raised(_check_duplicate_name(view, data["name"]), view)
  ELSE LET category == _create_category_object(data)
           id == NextId(view.categories)
           added == [view EXCEPT !.categories = Insert(@, id, category)]
       IN IF IntegrityViolation(added)
          THEN Raised(DuplicateCategoryError(data["name"]), db)
          ELSE Committed(added)

\* delete_category that leaves the rows of book_categories in place
delete_category_keeping_rows(view, category_id) ==
  IF get_category_by_id(view, category_id) # NoError
  THEN Raised(get_category_by_id(view, category_id), view)
  ELSE Committed([view EXCEPT !.categories = Delete(@, category_id)])

\* base_service.py safe_delete of a Category: the rows of book_categories
\* (the secondary table of Category.books) that name it go with it
delete_category(view, category_id) ==
  IF get_category_by_id(view, category_id) # NoError
  THEN Raised(get_category_by_id(view, category_id), view)
  ELSE Committed([view EXCEPT
         !.categories = Delete(@, category_id),
         !.books = [b \in DOMAIN @ |->
                      [@[b] EXCEPT !.categories = @ \ {category_id}]]])

(***************************************************************************)
(* services/book_service.py                                                *)
(***************************************************************************)
get_book_by_id(view, book_id) ==
  IF book_id \in DOMAIN view.books THEN NoError ELSE BookNotFoundError(book_id)

\* _create_book_object storing the title as given, without strip()
_create_book_object_unstripped(data) ==
  [title |-> data["title"].v,
   isbn |-> PyStr(data["isbn"]),
   year |-> PyInt(data["year"]).v,
   author_id |-> PkOf(data["author_id"]),
   description |-> IF Truthy(Get(data, "description"))
                   THEN VStr(strip(data["description"].v)) ELSE VNone,
   pages |-> IF Truthy(Get(data, "pages")) THEN VInt(PyInt(data["pages"]).v) ELSE VNone,
   created_at |-> now,
   categories |-> {}]

_create_book_object(data) ==
  [title |-> strip(data["title"].v),
   isbn |-> PyStr(data["isbn"]),
   year |-> PyInt(data["year"]).v,
   author_id |-> PkOf(data["author_id"]),
   description |-> IF Truthy(Get(data, "description"))
                   THEN VStr(strip(data["description"].v)) ELSE VNone,
   pages |-> IF Truthy(Get(data, "pages")) THEN VInt(PyInt(data["pages"]).v) ELSE VNone,
   created_at |-> now,
   categories |-> {}]

_verify_author_exists(view, author_id) ==
  IF PkOf(author_id) \in DOMAIN view.authors THEN NoError
  ELSE AuthorNotFoundError(author_id)

\* _check_duplicate_isbn left to the database constraint alone: the variant
\* under which a duplicate isbn is found only at commit
_check_duplicate_isbn_at_commit(view, isbn, exclude_book_id) == NoError

_check_duplicate_isbn(view, isbn, exclude_book_id) ==
  LET query == IF exclude_book_id # 0
               THEN BooksWithIsbn(view, PyStr(isbn)) \ {exclude_book_id}
               ELSE BooksWithIsbn(view, PyStr(isbn))
  IN IF query # {} THEN DuplicateISBNError(isbn) ELSE NoError

Items(list) == {list[i] : i \in 1..Len(list)}

\* Category.query.filter(Category.id.in_(category_ids)).all()
CategoriesIn(view, category_ids) ==
  {c \in DOMAIN view.categories : \E x \in Items(category_ids) : PkOf(x) = c}

\* requested_ids - found_ids: a requested value is found when it is equal,
\* as a Python value, to the id of a fetched Category
MissingIds(view, category_ids) ==
  {x \in Items(category_ids) :
     ~(x.t = "int" /\ x.v \in CategoriesIn(view, category_ids))}

\* returns [err, book]
_add_categories_to_book(view, book, category_ids) ==
  IF MissingIds(view, category_ids) # {}
  THEN [err |-> ValidationErrorWith("category_ids", VList(MissingIds(view, category_ids))),
        book |-> book]
  ELSE [err |-> NoError,
        book |-> [book EXCEPT !.categories = @ \cup CategoriesIn(view, category_ids)]]

\* create_book with _check_duplicate_isbn called before _verify_author_exists
create_book_isbn_before_author(view, data) ==
  IF validate_book_data(data, FALSE) # NoError
  THEN Raised(validate_book_data(data, FALSE), view)
  ELSE IF _check_duplicate_isbn(view, data["isbn"], 0) # NoError
  THEN Raised(_check_duplicate_isbn(view, data["isbn"], 0), view)
  ELSE IF _verify_author_exists(view, data["author_id"]) # NoError
  THEN Raised(_verify_author_exists(view, data["author_id"]), view)
  ELSE LET book == _create_book_object(data)
           cats == IF Truthy(Get(data, "category_ids"))
                   THEN _add_categories_to_book(view, book, data["category_ids"].v)
                   ELSE [err |-> NoError, book |-> book]
           added == [view EXCEPT !.books = Insert(@, NextId(@), cats.book)]
       IN IF cats.err # NoError THEN Raised(cats.err, view)
          ELSE IF IntegrityViolation(added) THEN Raised(DuplicateISBNError(data["isbn"]), db)
          ELSE Committed(added)

create_book(view, data) ==
  IF validate_book_data(data, FALSE) # NoError
  THEN Raised(validate_book_data(data, FALSE), view)
  ELSE IF _verify_author_exists(view, data["author_id"]) # NoError
  THEN Raised(_verify_author_exists(view, data["author_id"]), view)
  ELSE IF _check_duplicate_isbn(view, data["isbn"], 0) # NoError
  THEN Raised(_check_duplicate_isbn(view, data["isbn"], 0), view)
  ELSE LET book == _create_book_object(data)
           cats == IF Truthy(Get(data, "category_ids"))
                   THEN _add_categories_to_book(view, book, data["category_ids"].v)
                   ELSE [err |-> NoError, book |-> book]
           added == [view EXCEPT !.books = Insert(@, NextId(@), cats.book)]
       IN IF cats.err # NoError THEN Raised(cats.err, view)
          ELSE IF IntegrityViolation(added) THEN Raised(DuplicateISBNError(data["isbn"]), db)
          ELSE Committed(added)

\* One assignment of _update_book_fields: acc is [err, book]; nothing runs
\* after an exception
Step(acc, present, err, book) ==
  IF acc.err # NoError \/ ~present THEN acc
  ELSE IF err # NoError THEN [err |-> err, book |-> acc.book]
  ELSE [err |-> NoError, book |-> book]

\* returns [err, book]: the exception raised, and the Book object as the
\* assignments made before it left it
\* _update_book_fields with the call of _check_duplicate_isbn left out
_update_book_fields_unchecked(view, book_id, data) ==
  LET has(k) == k \in DOMAIN data
      s0 == [err |-> NoError, book |-> view.books[book_id]]
      s1 == Step(s0, has("title"), NoError,
                 [s0.book EXCEPT !.title = strip(data["title"].v)])
      s2 == Step(s1, has("isbn"),
                 NoError,
                 [s1.book EXCEPT !.isbn = PyStr(data["isbn"])])
      s3 == Step(s2, has("year"),
                 IF PyInt(data["year"]).ok THEN NoError ELSE PythonError("TypeError"),
                 [s2.book EXCEPT !.year = PyInt(data["year"]).v])
      s4 == Step(s3, has("description"), NoError,
                 [s3.book EXCEPT !.description =
                    IF Truthy(data["description"]) THEN VStr(strip(data["description"].v))
                    ELSE VNone])
      s5 == Step(s4, has("pages"), NoError,
                 [s4.book EXCEPT !.pages =
                    IF Truthy(data["pages"]) THEN VInt(PyInt(data["pages"]).v) ELSE VNone])
  IN Step(s5, has("author_id"), _verify_author_exists(view, data["author_id"]),
          [s5.book EXCEPT !.author_id = PkOf(data["author_id"])])

_update_book_fields(view, book_id, data) ==
  LET has(k) == k \in DOMAIN data
      s0 == [err |-> NoError, book |-> view.books[book_id]]
      s1 == Step(s0, has("title"), NoError,
                 [s0.book EXCEPT !.title = strip(data["title"].v)])
      s2 == Step(s1, has("isbn"),
                 IF data["isbn"] # VStr(s1.book.isbn)
                 THEN _check_duplicate_isbn(view, data["isbn"], book_id) ELSE NoError,
                 [s1.book EXCEPT !.isbn = PyStr(data["isbn"])])
      s3 == Step(s2, has("year"),
                 IF PyInt(data["year"]).ok THEN NoError ELSE PythonError("TypeError"),
                 [s2.book EXCEPT !.year = PyInt(data["year"]).v])
      s4 == Step(s3, has("description"), NoError,
                 [s3.book EXCEPT !.description =
                    IF Truthy(data["description"]) THEN VStr(strip(data["description"].v))
                    ELSE VNone])
      s5 == Step(s4, has("pages"), NoError,
                 [s4.book EXCEPT !.pages =
                    IF Truthy(data["pages"]) THEN VInt(PyInt(data["pages"]).v) ELSE VNone])
  IN Step(s5, has("author_id"), _verify_author_exists(view, data["author_id"]),
          [s5.book EXCEPT !.author_id = PkOf(data["author_id"])])

\* update_book with get_book_by_id called before validate_book_data
update_book_lookup_first(view, book_id, data) ==
  IF get_book_by_id(view, book_id) # NoError
  THEN Raised(get_book_by_id(view, book_id), view)
  ELSE IF validate_book_data(data, TRUE) # NoError
  THEN Raised(validate_book_data(data, TRUE), view)
  ELSE LET fields == _update_book_fields(view, book_id, data)
           cleared == [fields.book EXCEPT !.categories = {}]
           cats == IF fields.err # NoError \/ "category_ids" \notin DOMAIN data THEN fields
                   ELSE IF Truthy(data["category_ids"])
                   THEN _add_categories_to_book(view, cleared, data["category_ids"].v)
                   ELSE [err |-> NoError, book |-> cleared]
           updated == [view EXCEPT !.books[book_id] = cats.book]
       IN IF cats.err # NoError THEN Raised(cats.err, updated)
          ELSE IF IntegrityViolation(updated)
          THEN Raised(DuplicateISBNError(IF "isbn" \in DOMAIN data THEN data["isbn"]
                                         ELSE VStr(db.books[book_id].isbn)), db)
          ELSE Committed(updated)

\* update_book with the statement book.categories = [] left out: the named
\* Categories are added to the ones the Book has
update_book_keeping_categories(view, book_id, data) ==
  IF validate_book_data(data, TRUE) # NoError
  THEN Raised(validate_book_data(data, TRUE), view)
  ELSE IF get_book_by_id(view, book_id) # NoError
  THEN Raised(get_book_by_id(view, book_id), view)
  ELSE LET fields == _update_book_fields(view, book_id, data)
           cleared == fields.book
           cats == IF fields.err # NoError \/ "category_ids" \notin DOMAIN data THEN fields
                   ELSE IF Truthy(data["category_ids"])
                   THEN _add_categories_to_book(view, cleared, data["category_ids"].v)
                   ELSE [err |-> NoError, book |-> cleared]
           updated == [view EXCEPT !.books[book_id] = cats.book]
       IN IF cats.err # NoError THEN Raised(cats.err, updated)
          ELSE IF IntegrityViolation(updated)
          THEN Raised(DuplicateISBNError(IF "isbn" \in DOMAIN data THEN data["isbn"]
                                         ELSE VStr(db.books[book_id].isbn)), db)
          ELSE Committed(updated)

update_book(view, book_id, data) ==
  IF validate_book_data(data, TRUE) # NoError
  THEN Raised(validate_book_data(data, TRUE), view)
  ELSE IF get_book_by_id(view, book_id) # NoError
  THEN Raised(get_book_by_id(view, book_id), view)
  ELSE LET fields == _update_book_fields(view, book_id, data)
           cleared == [fields.book EXCEPT !.categories = {}]
           cats == IF fields.err # NoError \/ "category_ids" \notin DOMAIN data THEN fields
                   ELSE IF Truthy(data["category_ids"])
                   THEN _add_categories_to_book(view, cleared, data["category_ids"].v)
                   ELSE [err |-> NoError, book |-> cleared]
           updated == [view EXCEPT !.books[book_id] = cats.book]
       IN IF cats.err # NoError THEN Raised(cats.err, updated)
          ELSE IF IntegrityViolation(updated)
          THEN Raised(DuplicateISBNError(IF "isbn" \in DOMAIN data THEN data["isbn"]
                                         ELSE VStr(db.books[book_id].isbn)), db)
          ELSE Committed(updated)

\* base_service.py safe_delete of a Book: its book_categories rows go with it
delete_book(view, book_id) ==
  IF get_book_by_id(view, book_id) # NoError
  THEN Raised(get_book_by_id(view, book_id), view)
  ELSE Committed([view EXCEPT !.books = Delete(@, book_id)])

(***************************************************************************)
(* service.py: the BookService.create_book of the single-module service    *)
(* layer, which attaches the Categories it finds and ignores the rest      *)
(***************************************************************************)
service_create_book(view, data) ==
  IF validate_book_data(data, FALSE) # NoError
  THEN Raised(validate_book_data(data, FALSE), view)
  ELSE IF PkOf(data["author_id"]) \notin DOMAIN view.authors
  THEN Raised(AuthorNotFoundError(data["author_id"]), view)
  ELSE IF BooksWithIsbn(view, PyStr(data["isbn"])) # {}
  THEN Raised(DuplicateISBNError(data["isbn"]), view)
  ELSE LET book == _create_book_object(data)
           categories == IF Truthy(Get(data, "category_ids"))
                         THEN CategoriesIn(view, data["category_ids"].v) ELSE {}
           added == [view EXCEPT !.books =
                       Insert(@, NextId(@), [book EXCEPT !.categories = categories])]
       IN IF IntegrityViolation(added) THEN Raised(DuplicateISBNError(data["isbn"]), db)
          ELSE Committed(added)

(***************************************************************************)
(* Book listing: services/book_service.py get_all_books, _build_book_query *)
(***************************************************************************)
UpperCase == <<"A", "B", "C", "D", "E", "F", "G", "H", "I", "J", "K", "L", "M",
               "N", "O", "P", "Q", "R", "S", "T", "U", "V", "W", "X", "Y", "Z">>
LowerCase == <<"a", "b", "c", "d", "e", "f", "g", "h", "i", "j", "k", "l", "m",
               "n", "o", "p", "q", "r", "s", "t", "u", "v", "w", "x", "y", "z">>

Lower(c) ==
  IF \E i \in 1..26 : UpperCase[i] = c
  THEN LowerCase[CHOOSE i \in 1..26 : UpperCase[i] = c]
  ELSE c

\* column.ilike(pattern): SQL LIKE without regard to case; % matches any
\* run of characters and _ any one character
RECURSIVE ilike(_, _)
ilike(s, pattern) ==
  IF pattern = <<>> THEN s = <<>>
  ELSE IF Head(pattern) = "%"
  THEN ilike(s, Tail(pattern)) \/ (s # <<>> /\ ilike(Tail(s), pattern))
  ELSE /\ s # <<>>
       /\ (Head(pattern) = "_" \/ Lower(Head(pattern)) = Lower(Head(s)))
       /\ ilike(Tail(s), Tail(pattern))

\* The rows of the query: one per Book, and after join(Book.categories) one
\* per pair of a Book and a Category of it (category = 0 without the join)
_build_book_query(view, search, category, year, author_id) ==
  LET all == {[book |-> b, category |-> 0] : b \in DOMAIN view.books}
      searched ==
        IF Truthy(search)
        THEN {r \in all :
                /\ view.books[r.book].author_id \in DOMAIN view.authors
                /\ \/ ilike(view.books[r.book].title, <<"%">> \o search.v \o <<"%">>)
                   \/ ilike(view.authors[view.books[r.book].author_id].name,
                            <<"%">> \o search.v \o <<"%">>)}
        ELSE all
      joined ==
        IF Truthy(category)
        THEN {row \in {[book |-> r.book, category |-> c] :
                         r \in searched, c \in DOMAIN view.categories} :
                /\ row.category \in view.books[row.book].categories
                /\ ilike(view.categories[row.category].name,
                         <<"%">> \o category.v \o <<"%">>)}
        ELSE searched
      of_year == IF Truthy(year) THEN {r \in joined : view.books[r.book].year = year.v}
                 ELSE joined
  IN IF Truthy(author_id)
     THEN {r \in of_year : view.books[r.book].author_id = author_id.v}
     ELSE of_year

\* query.order_by(Book.created_at.desc()): the rows in an order the
\* database may return them in; rows of equal created_at come in any order
Orderings(view, rows) ==
  {o \in [1..Cardinality(rows) -> rows] :
     /\ \A i, j \in DOMAIN o : i # j => o[i] # o[j]
     /\ \A i, j \in DOMAIN o :
          i < j => view.books[o[i].book].created_at >= view.books[o[j].book].created_at}

\* The entities of a sequence of rows: a legacy Query returns each entity once
RECURSIVE Unique(_)
Unique(ids) ==
  IF ids = <<>> THEN <<>>
  ELSE LET init == Unique(SubSeq(ids, 1, Len(ids) - 1)) IN
       IF \E i \in DOMAIN init : init[i] = ids[Len(ids)] THEN init
       ELSE Append(init, ids[Len(ids)])

Min(a, b) == IF a < b THEN a ELSE b

Ceil(a, b) == (a + b - 1) \div b

\* Flask-SQLAlchemy query.paginate(page, per_page, error_out=False) and the
\* Pagination object: the count is the number of rows of the query; some
\* releases take the number of items instead on a short first page
paginate(ordered, page, per_page) ==
  LET first == (page - 1) * per_page + 1
      last == Min(page * per_page, Len(ordered))
      items == Unique([i \in 1..(IF last >= first THEN last - first + 1 ELSE 0) |->
                         ordered[first + i - 1].book])
      totals == {Len(ordered)} \cup
                (IF page = 1 /\ Len(items) < per_page THEN {Len(items)} ELSE {})
  IN {[books |-> items, total |-> total, page |-> page, per_page |-> per_page,
       pages |-> IF total = 0 THEN 0 ELSE Ceil(total, per_page),
       has_next |-> page < (IF total = 0 THEN 0 ELSE Ceil(total, per_page)),
       has_prev |-> page > 1] : total \in totals}

NoReturn == [books |-> <<>>, total |-> 0, page |-> 0, per_page |-> 0, pages |-> 0,
             has_next |-> FALSE, has_prev |-> FALSE]

\* the set of results [err, ret] the call may have
get_all_books(view, page, per_page, search, category, year, author_id) ==
  LET valid == validate_pagination(page, per_page) IN
  IF valid.err # NoError THEN {[err |-> valid.err, ret |-> NoReturn]}
  ELSE {[err |-> NoError, ret |-> ret] :
          ret \in UNION {paginate(o, valid.page, valid.per_page) :
                           o \in Orderings(view, _build_book_query(view, search, category,
                                                                    year, author_id))}}

(***************************************************************************)
(* routes/books.py get_books                                               *)
(***************************************************************************)
\* request.args.get(key, default, type=int): the default when the parameter
\* is absent and when int() raises ValueError
ArgsGetInt(args, key, default) ==
  IF key \notin DOMAIN args THEN default
  ELSE IF PyInt(args[key]).ok THEN VInt(PyInt(args[key]).v)
  ELSE default

get_books(view, args) ==
  get_all_books(view,
                ArgsGetInt(args, "page", VInt(1)),
                ArgsGetInt(args, "per_page", VInt(10)),
                Get(args, "search"),
                Get(args, "category"),
                ArgsGetInt(args, "year", VNone),
                ArgsGetInt(args, "author_id", VNone))

(***************************************************************************)
(* Input values                                                            *)
(***************************************************************************)
Isbn10A == <<"0", "1", "3", "2", "3", "5", "0", "8", "8", "4">>
Isbn10B == <<"1", "2", "3", "4", "5", "6", "7", "8", "9", "0">>
TitleA == <<"A">>
TitleB == <<" ", "B", " ">>
TitleC == <<"C">>
Blank == <<" ", " ">>
NameA == <<"a", "b">>
NamePadded == <<" ", "a", "b", " ">>
NameB == <<"A", "b", "c">>
NameDigits == <<"1", "2">>
Text == <<"t">>

Ids == 1..MaxId

AuthorCreates ==
  {[name |-> VStr(NameA)],
   [name |-> VStr(NameB), bio |-> VStr(Text), country |-> VStr(Text)],
   [name |-> VStr(Blank)]}

AuthorUpdates ==
  {[name |-> VStr(NamePadded)], [bio |-> VStr(Text)], [bio |-> VNone],
   [country |-> VStr(Text)], [country |-> VStr(NameDigits)]}

CategoryCreates ==
  {[name |-> VStr(NameA)], [name |-> VStr(NamePadded)],
   [name |-> VStr(NameB), description |-> VStr(Text)],
   [name |-> VStr(NameDigits)], [name |-> VStr(Blank)], [description |-> VStr(Text)]}

BookCreates ==
  {[title |-> VStr(TitleA), isbn |-> VStr(Isbn10A), year |-> VInt(2008),
    author_id |-> VInt(1)],
   [title |-> VStr(TitleB), isbn |-> VStr(Isbn10B), year |-> VInt(2020),
    author_id |-> VInt(1), description |-> VStr(Text), pages |-> VInt(100),
    category_ids |-> VList(<<VInt(1)>>)],
   [title |-> VStr(TitleC), isbn |-> VStr(Isbn10A), year |-> VInt(2020),
    author_id |-> VInt(2), category_ids |-> VList(<<VInt(1), VInt(2)>>)],
   [title |-> VStr(Blank), isbn |-> VStr(Isbn10A), year |-> VInt(2020),
    author_id |-> VInt(2)],
   [title |-> VStr(TitleC), isbn |-> VStr(Isbn10B), year |-> VInt(2008),
    author_id |-> VInt(1), category_ids |-> VList(<<VStr(<<"1">>), VInt(2)>>)]}

BookUpdates ==
  {[title |-> VStr(TitleB)],
   [isbn |-> VStr(Isbn10A)],
   [isbn |-> VStr(Isbn10B)],
   [year |-> VInt(2020)],
   [description |-> VStr(Text)],
   [pages |-> VInt(100)],
   [author_id |-> VInt(2)],
   [category_ids |-> VList(<<VInt(2)>>)],
   [category_ids |-> VList(<<>>)],
   [title |-> VStr(TitleC), isbn |-> VStr(Isbn10A)],
   [year |-> VInt(2008), pages |-> VNone, author_id |-> VInt(2)],
   [description |-> VNone, category_ids |-> VList(<<VInt(1), VInt(2)>>)],
   [year |-> VInt(999)],
   [isbn |-> VStr(Isbn10B), author_id |-> VInt(MaxId + 1)]}

(***************************************************************************)
(* Actions: one per call.  A service call leaves the session as its body   *)
(* left it, and the database as the session sees it when it committed.     *)
(***************************************************************************)
RowsChanged(before, after) ==
  {i \in DOMAIN before \cup DOMAIN after :
     i \notin DOMAIN before \/ i \notin DOMAIN after \/ before[i] # after[i]}

Wrote(before, after) ==
  [authors |-> RowsChanged(before.authors, after.authors),
   books |-> RowsChanged(before.books, after.books),
   categories |-> RowsChanged(before.categories, after.categories)]

NoRequest == <<>>

Call(op, id, data, out) ==
  /\ nops < MaxOps
  /\ nops' = nops + 1
  /\ sess' = out.view
  /\ db' = IF out.committed THEN out.view ELSE db
  /\ result' = [op |-> op, id |-> id, data |-> data, err |-> out.err,
                wrote |-> Wrote(sess, out.view), ret |-> NoReturn]
  /\ UNCHANGED <<now, request, inflight>>

CreateAuthor(inputs) ==
  \E data \in inputs :
    /\ NextId(sess.authors) <= MaxId
    /\ Call("create_author", 0, data, create_author(sess, data))

UpdateAuthor(inputs) ==
  \E id \in Ids, data \in inputs :
    Call("update_author", id, data, update_author(sess, id, data))

DeleteAuthor ==
  \E id \in Ids : Call("delete_author", id, <<>>, delete_author(sess, id))

CreateCategory(inputs) ==
  \E data \in inputs :
    /\ NextId(sess.categories) <= MaxId
    /\ Call("create_category", 0, data, create_category(sess, data))

DeleteCategory ==
  \E id \in Ids : Call("delete_category", id, <<>>, delete_category(sess, id))

CreateBook(inputs) ==
  \E data \in inputs :
    /\ NextId(sess.books) <= MaxId
    /\ Call("create_book", 0, data, create_book(sess, data))

ServiceCreateBook(inputs) ==
  \E data \in inputs :
    /\ NextId(sess.books) <= MaxId
    /\ Call("service.create_book", 0, data, service_create_book(sess, data))

UpdateBook(inputs) ==
  \E id \in Ids, data \in inputs :
    Call("update_book", id, data, update_book(sess, id, data))

DeleteBook ==
  \E id \in Ids : Call("delete_book", id, <<>>, delete_book(sess, id))

\* GET /books with the query string request
GetBooks ==
  \E out \in get_books(sess, request) :
    /\ nops < MaxOps
    /\ nops' = nops + 1
    /\ result' = [op |-> "get_books", id |-> 0, data |-> request, err |-> out.err,
                  wrote |-> Wrote(sess, sess), ret |-> out.ret]
    /\ UNCHANGED <<db, sess, now, request, inflight>>

\* time passes between two calls
Tick ==
  /\ now < MaxTime
  /\ now' = now + 1
  /\ UNCHANGED <<db, sess, nops, request, result, inflight>>

\* the workers, and a worker that is running no call
Workers == {1, 2}

Idle == [pc |-> "idle", op |-> "none", data |-> <<>>, err |-> NoError]

NoCalls == [w \in Workers |-> Idle]

NoResult ==
  [op |-> "none", id |-> 0, data |-> <<>>, err |-> NoError,
   wrote |-> Wrote(EmptyStore, EmptyStore), ret |-> NoReturn]

Init ==
  /\ db = EmptyStore
  /\ sess = EmptyStore
  /\ now = 0
  /\ nops = 0
  /\ request = NoRequest
  /\ result = NoResult
  /\ inflight = NoCalls

Next ==
  \/ CreateAuthor(AuthorCreates)
  \/ UpdateAuthor(AuthorUpdates)
  \/ DeleteAuthor
  \/ CreateCategory(CategoryCreates)
  \/ DeleteCategory
  \/ CreateBook(BookCreates)
  \/ UpdateBook(BookUpdates)
  \/ DeleteBook
  \/ Tick

\* The services package (services/), called on one session
Spec == Init /\ [][Next]_vars

NextService ==
  \/ CreateAuthor(AuthorCreates)
  \/ CreateCategory(CategoryCreates)
  \/ DeleteCategory
  \/ CreateBook(BookCreates)
  \/ ServiceCreateBook(BookCreates)
  \/ DeleteBook
  \/ Tick

\* The create_book of both service layers (services/ and service.py)
SpecService == Init /\ [][NextService]_vars

(***************************************************************************)
(* GET /books over a store built by the services package                   *)
(***************************************************************************)
ListAuthors == {[name |-> VStr(NameA)]}

ListCategories == {[name |-> VStr(NameA)], [name |-> VStr(NameB)]}

ListBooks ==
  {[title |-> VStr(TitleA), isbn |-> VStr(Isbn10A), year |-> VInt(2008),
    author_id |-> VInt(1), category_ids |-> VList(<<VInt(1), VInt(2)>>)],
   [title |-> VStr(TitleC), isbn |-> VStr(Isbn10B), year |-> VInt(2020),
    author_id |-> VInt(1), category_ids |-> VList(<<VInt(1)>>)]}

PageArgs == {VNone, VStr(<<"0">>), VStr(<<"1">>), VStr(<<"2">>), VStr(<<"a">>)}

PerPageArgs ==
  {VNone, VStr(<<"1">>), VStr(<<"2">>), VStr(<<"1", "0", "0">>), VStr(<<"1", "0", "1">>),
   VStr(<<"x">>)}

CategoryArgs == {VNone, VStr(<<"a">>)}

\* request.args: the parameters of the query string that are present
\* (VNone stands for an absent parameter)
Args(page, per_page, category) ==
  LET all == [page |-> page, per_page |-> per_page, category |-> category]
  IN [k \in {key \in DOMAIN all : all[key] # VNone} |-> all[k]]

QueryStrings ==
  {Args(page, per_page, category) :
     page \in PageArgs, per_page \in PerPageArgs, category \in CategoryArgs}

InitList ==
  /\ db = EmptyStore
  /\ sess = EmptyStore
  /\ now = 0
  /\ nops = 0
  /\ request \in QueryStrings
  /\ result = NoResult
  /\ inflight = NoCalls

NextList ==
  \/ CreateAuthor(ListAuthors)
  \/ CreateCategory(ListCategories)
  \/ CreateBook(ListBooks)
  \/ GetBooks
  \/ Tick

\* One list request, drawn at the start, served over every store the
\* creations build
SpecList == InitList /\ [][NextList]_vars

(***************************************************************************)
(* GET /books with filters                                                 *)
(***************************************************************************)
NameX == <<"x", "y">>

QueryAuthors == {[name |-> VStr(NameA)], [name |-> VStr(NameX)]}

QueryCategories == {[name |-> VStr(NameA)]}

QueryBooks ==
  {[title |-> VStr(TitleA), isbn |-> VStr(Isbn10A), year |-> VInt(2008),
    author_id |-> VInt(1)],
   [title |-> VStr(TitleC), isbn |-> VStr(Isbn10B), year |-> VInt(2020),
    author_id |-> VInt(1)],
   [title |-> VStr(TitleC), isbn |-> VStr(Isbn10B), year |-> VInt(2008),
    author_id |-> VInt(2), category_ids |-> VList(<<VInt(1)>>)]}

SearchArgs == {VNone, VStr(<<"a">>), VStr(<<"_">>)}

CategoryNameArgs == {VNone, VStr(<<"B">>)}

YearArgs == {VNone, VStr(<<"2", "0", "0", "8">>), VStr(<<"0">>)}

AuthorIdArgs == {VNone, VStr(<<"2">>), VStr(<<"0">>)}

\* request.args: the filters of the query string that are present
Filters(search, category, year, author_id) ==
  LET all == [search |-> search, category |-> category, year |-> year,
              author_id |-> author_id]
  IN [k \in {key \in DOMAIN all : all[key] # VNone} |-> all[k]]

FilterStrings ==
  {Filters(search, category, year, author_id) :
     search \in SearchArgs, category \in CategoryNameArgs, year \in YearArgs,
     author_id \in AuthorIdArgs}

InitQuery ==
  /\ db = EmptyStore
  /\ sess = EmptyStore
  /\ now = 0
  /\ nops = 0
  /\ request \in FilterStrings
  /\ result = NoResult
  /\ inflight = NoCalls

NextQuery ==
  \/ CreateAuthor(QueryAuthors)
  \/ CreateCategory(QueryCategories)
  \/ CreateBook(QueryBooks)
  \/ GetBooks
  \/ Tick

\* One filtered list request, drawn at the start, served (repeatedly) over
\* every store the creations build
SpecQuery == InitQuery /\ [][NextQuery]_vars

(***************************************************************************)
(* The book validator applied to one input record                          *)
(***************************************************************************)
\* n digits: 1234567890123...
DigitRun(n) == [i \in 1..n |-> DigitChar(i % 10)]

IsbnInputs ==
  {VStr(pre \o DigitRun(n) \o mid \o DigitRun(m) \o suf) :
     pre \in {<<>>, <<" ">>},
     n \in {0, 4},
     mid \in {<<>>, <<"-">>, <<" ">>, <<"x">>},
     m \in 5..(MaxIsbnDigits - 4),
     suf \in {<<>>, <<"-">>}}
  \cup {VStr(<<>>), VStr(<<"-">>), VInt(1234567890), VInt(123), VNone}

YearInputs ==
  {VNone, VInt(0), VInt(999), VInt(1000), VInt(2008), VInt(2026), VInt(2027),
   VStr(<<"2", "0", "0", "8">>), VStr(<<"9", "9", "9">>), VStr(<<"x">>), VStr(<<>>)}

\* the records of create mode are a complete valid record with one field replaced
ValidBook ==
  [title |-> VStr(TitleA), isbn |-> VStr(Isbn10A), year |-> VInt(2008),
   author_id |-> VInt(1)]

\* a value of each field of a Book record that its check accepts, and one it
\* rejects
FieldValues ==
  [title |-> [valid |-> VStr(TitleA), invalid |-> VStr(Blank)],
   isbn |-> [valid |-> VStr(Isbn10A), invalid |-> VStr(<<"x">>)],
   year |-> [valid |-> VInt(2008), invalid |-> VInt(999)],
   author_id |-> [valid |-> VInt(1), invalid |-> VNone],
   pages |-> [valid |-> VInt(100), invalid |-> VInt(0)],
   description |-> [valid |-> VStr(Text),
                   invalid |-> VStr([i \in 1..(MAX_DESCRIPTION_LENGTH + 1) |-> "d"])],
   category_ids |-> [valid |-> VList(<<VInt(1)>>),
                    invalid |-> VList(<<VInt(1), VInt(1)>>)]]

\* the records that have, for each field, no value, the accepted one or the
\* rejected one
FieldRecords ==
  {[k \in {f \in DOMAIN FieldValues : choice[f] # "absent"} |-> FieldValues[k][choice[k]]] :
     choice \in [DOMAIN FieldValues -> {"absent", "valid", "invalid"}]}

\* titles around the two ends of the length check, with and without
\* surrounding whitespace
TitleInputs ==
  {VStr(pre \o [i \in 1..n |-> "a"] \o suf) :
     pre \in {<<>>, <<" ">>},
     n \in {0, 1, MAX_TITLE_LENGTH - 1, MAX_TITLE_LENGTH, MAX_TITLE_LENGTH + 1},
     suf \in {<<>>, <<" ">>}}

ValidatorRecords ==
  {[isbn |-> x] : x \in IsbnInputs}
  \cup {[year |-> x] : x \in YearInputs}
  \cup {[ValidBook EXCEPT !.year = x] : x \in YearInputs}
  \cup FieldRecords
  \cup {[title |-> x] : x \in TitleInputs}

Validated(op, err) ==
  /\ nops < MaxOps
  /\ nops' = nops + 1
  /\ result' = [op |-> op, id |-> 0, data |-> request, err |-> err,
                wrote |-> Wrote(sess, sess), ret |-> NoReturn]
  /\ UNCHANGED <<db, sess, now, request, inflight>>

ValidateIsbn ==
  /\ DOMAIN request = {"isbn"}
  /\ Validated("validate_isbn", validate_isbn(request["isbn"]))

ValidateBookData ==
  \E is_update \in BOOLEAN :
    /\ is_update \/ DOMAIN request = DOMAIN ValidBook \/ request \in FieldRecords
    /\ Validated(IF is_update THEN "validate_book_data(is_update=True)"
                 ELSE "validate_book_data",
                 validate_book_data(request, is_update))

InitValidate ==
  /\ db = EmptyStore
  /\ sess = EmptyStore
  /\ now = 0
  /\ nops = 0
  /\ request \in ValidatorRecords
  /\ result = NoResult
  /\ inflight = NoCalls

NextValidate == ValidateIsbn \/ ValidateBookData

\* One input record, drawn at the start, given to the validator
SpecValidate == InitValidate /\ [][NextValidate]_vars

(***************************************************************************)
(* Concurrent creations: each worker runs create_book or create_category   *)
(* on a session of its own, in two steps, the checks before the try block  *)
(* and the try block with its commit, and another worker may commit        *)
(* between the two.                                                        *)
(***************************************************************************)
\* services/book_service.py create_book, the statements before the try block
create_book_checks(view, data) ==
  IF validate_book_data(data, FALSE) # NoError THEN validate_book_data(data, FALSE)
  ELSE IF _verify_author_exists(view, data["author_id"]) # NoError
  THEN _verify_author_exists(view, data["author_id"])
  ELSE _check_duplicate_isbn(view, data["isbn"], 0)

\* create_book's try block with the except IntegrityError clause left out,
\* so that the failed commit is handled as any SQLAlchemyError
create_book_try_without_integrity_clause(view, data) ==
  LET book == _create_book_object(data)
      cats == IF Truthy(Get(data, "category_ids"))
              THEN _add_categories_to_book(view, book, data["category_ids"].v)
              ELSE [err |-> NoError, book |-> book]
      added == [view EXCEPT !.books = Insert(@, NextId(@), cats.book)]
  IN IF cats.err # NoError THEN Raised(cats.err, view)
     ELSE IF IntegrityViolation(added) THEN Raised(DatabaseError, view)
     ELSE Committed(added)

\* services/book_service.py create_book, the try block: view is the
\* database at the time of the commit
create_book_try(view, data) ==
  LET book == _create_book_object(data)
      cats == IF Truthy(Get(data, "category_ids"))
              THEN _add_categories_to_book(view, book, data["category_ids"].v)
              ELSE [err |-> NoError, book |-> book]
      added == [view EXCEPT !.books = Insert(@, NextId(@), cats.book)]
  IN IF cats.err # NoError THEN Raised(cats.err, view)
     ELSE IF IntegrityViolation(added) THEN Raised(DuplicateISBNError(data["isbn"]), view)
     ELSE Committed(added)

\* services/category_service.py create_category, before the try block
create_category_checks(view, data) ==
  IF validate_category_data(data, FALSE) # NoError
  THEN validate_category_data(data, FALSE)
  ELSE _check_duplicate_name(view, data["name"])

\* services/category_service.py create_category, the try block
create_category_try(view, data) ==
  LET added == [view EXCEPT !.categories =
                  Insert(@, NextId(@), _create_category_object(data))]
  IN IF IntegrityViolation(added) THEN Raised(DuplicateCategoryError(data["name"]), view)
     ELSE Committed(added)

ConcurrentAuthors == {[name |-> VStr(NameA)]}

ConcurrentBooks ==
  {[title |-> VStr(TitleA), isbn |-> VStr(Isbn10A), year |-> VInt(2008),
    author_id |-> VInt(1)],
   [title |-> VStr(TitleC), isbn |-> VStr(Isbn10A), year |-> VInt(2020),
    author_id |-> VInt(1)],
   [title |-> VStr(TitleC), isbn |-> VStr(Isbn10B), year |-> VInt(2020),
    author_id |-> VInt(1)]}

ConcurrentCategories ==
  {[name |-> VStr(NameA)], [name |-> VStr(NamePadded)], [name |-> VStr(NameB)]}

\* worker w enters a call and runs it up to the try block
Begin(w, op, data, err) ==
  /\ inflight[w].pc = "idle"
  /\ nops < MaxOps
  /\ nops' = nops + 1
  /\ inflight' = [inflight EXCEPT ![w] =
                    [pc |-> IF err = NoError THEN "checked" ELSE "rejected",
                     op |-> op, data |-> data, err |-> err]]
  /\ UNCHANGED <<db, sess, now, request, result>>

\* worker w runs the try block; the session of the sequential calls holds
\* no change of its own and reads the database as the commit left it
End(w, out) ==
  /\ inflight' = [inflight EXCEPT ![w] = [@ EXCEPT !.pc = "done", !.err = out.err]]
  /\ db' = IF out.committed THEN out.view ELSE db
  /\ sess' = IF out.committed THEN out.view ELSE db
  /\ UNCHANGED <<now, nops, request, result>>

BeginCreateBook ==
  \E w \in Workers, data \in ConcurrentBooks :
    Begin(w, "create_book", data, create_book_checks(db, data))

EndCreateBook ==
  \E w \in Workers :
    /\ inflight[w].pc = "checked"
    /\ inflight[w].op = "create_book"
    /\ End(w, create_book_try(db, inflight[w].data))

BeginCreateCategory ==
  \E w \in Workers, data \in ConcurrentCategories :
    Begin(w, "create_category", data, create_category_checks(db, data))

EndCreateCategory ==
  \E w \in Workers :
    /\ inflight[w].pc = "checked"
    /\ inflight[w].op = "create_category"
    /\ End(w, create_category_try(db, inflight[w].data))

NextConcurrent ==
  \/ CreateAuthor(ConcurrentAuthors)
  \/ BeginCreateBook
  \/ EndCreateBook
  \/ BeginCreateCategory
  \/ EndCreateCategory

\* Two workers, one creation each, over a store with or without an Author
SpecConcurrent == Init /\ [][NextConcurrent]_vars

(***************************************************************************)
(* Failing commits: db.session.commit() may raise a SQLAlchemyError (the   *)
(* database is locked, the disk is full, the connection is lost) in any    *)
(* call that reaches it.                                                   *)
(***************************************************************************)
\* except SQLAlchemyError with the db.session.rollback() left out: the
\* session keeps what the call assigned
commit_failed_without_rollback(out) == Raised(DatabaseError, out.view)

\* except SQLAlchemyError: db.session.rollback(); raise DatabaseError(...),
\* the clause every create, update and delete of the services package ends
\* with (base_service.py safe_delete and safe_commit, and the try blocks):
\* out is the outcome the call has when the commit succeeds
commit_failed(out) == Raised(DatabaseError, db)

FaultyAuthors == {[name |-> VStr(NameA)]}

FaultyAuthorUpdates == {[bio |-> VStr(Text)]}

FaultyCategories == {[name |-> VStr(NameA)]}

FaultyBooks ==
  {[title |-> VStr(TitleA), isbn |-> VStr(Isbn10A), year |-> VInt(2008),
    author_id |-> VInt(1)],
   [title |-> VStr(TitleC), isbn |-> VStr(Isbn10B), year |-> VInt(2020),
    author_id |-> VInt(1), category_ids |-> VList(<<VInt(1)>>)]}

FaultyBookUpdates ==
  {[title |-> VStr(TitleB)],
   [title |-> VStr(TitleC), isbn |-> VStr(Isbn10A)],
   [category_ids |-> VList(<<VInt(2)>>)]}

\* db.session.commit() of a call: out is the outcome the call has when the
\* commit succeeds, and only a call that reaches the commit can fail there
Commit(out, raises) == IF raises /\ out.committed THEN commit_failed(out) ELSE out

FaultyCreateAuthor ==
  \E data \in FaultyAuthors, raises \in BOOLEAN :
    /\ NextId(sess.authors) <= MaxId
    /\ Call("create_author", 0, data, Commit(create_author(sess, data), raises))

FaultyUpdateAuthor ==
  \E id \in Ids, data \in FaultyAuthorUpdates, raises \in BOOLEAN :
    Call("update_author", id, data, Commit(update_author(sess, id, data), raises))

FaultyDeleteAuthor ==
  \E id \in Ids, raises \in BOOLEAN :
    Call("delete_author", id, <<>>, Commit(delete_author(sess, id), raises))

FaultyCreateCategory ==
  \E data \in FaultyCategories, raises \in BOOLEAN :
    /\ NextId(sess.categories) <= MaxId
    /\ Call("create_category", 0, data, Commit(create_category(sess, data), raises))

FaultyDeleteCategory ==
  \E id \in Ids, raises \in BOOLEAN :
    Call("delete_category", id, <<>>, Commit(delete_category(sess, id), raises))

FaultyCreateBook ==
  \E data \in FaultyBooks, raises \in BOOLEAN :
    /\ NextId(sess.books) <= MaxId
    /\ Call("create_book", 0, data, Commit(create_book(sess, data), raises))

FaultyUpdateBook ==
  \E id \in Ids, data \in FaultyBookUpdates, raises \in BOOLEAN :
    Call("update_book", id, data, Commit(update_book(sess, id, data), raises))

FaultyDeleteBook ==
  \E id \in Ids, raises \in BOOLEAN :
    Call("delete_book", id, <<>>, Commit(delete_book(sess, id), raises))

NextFaulty ==
  \/ FaultyCreateAuthor
  \/ FaultyUpdateAuthor
  \/ FaultyDeleteAuthor
  \/ FaultyCreateCategory
  \/ FaultyDeleteCategory
  \/ FaultyCreateBook
  \/ FaultyUpdateBook
  \/ FaultyDeleteBook

\* The services package on one session, over a database whose commits may fail
SpecFaulty == Init /\ [][NextFaulty]_vars

(***************************************************************************)
(* ISBNs written with and without hyphens                                  *)
(***************************************************************************)
\* Isbn10A with a hyphen after the first digit
Isbn10AHyphen == <<Head(Isbn10A), "-">> \o Tail(Isbn10A)

IsbnAuthors == {[name |-> VStr(NameA)]}

IsbnBooks ==
  {[title |-> VStr(TitleA), isbn |-> VStr(isbn), year |-> VInt(2008), author_id |-> VInt(1)] :
     isbn \in {Isbn10A, Isbn10AHyphen, Isbn10B}}

IsbnUpdates == {[isbn |-> VStr(isbn)] : isbn \in {Isbn10A, Isbn10AHyphen, Isbn10B}}

NextIsbn ==
  \/ CreateAuthor(IsbnAuthors)
  \/ CreateBook(IsbnBooks)
  \/ UpdateBook(IsbnUpdates)
  \/ DeleteBook

\* create_book and update_book with ISBNs that differ by a hyphen only
SpecIsbn == Init /\ [][NextIsbn]_vars

(***************************************************************************)
(* Records whose fields hold values of every kind                          *)
(***************************************************************************)
\* null, the empty string, a blank string, a string, an integer, a list
Kinds == {VNone, VStr(<<>>), VStr(Blank), VStr(TitleA), VInt(2008), VList(<<>>)}

KindAuthors == {[name |-> VStr(NameA)]}

\* a complete valid record with one field of any kind, or without the field
KindBooks ==
  {[ValidBook EXCEPT ![f] = v] : f \in {"title", "isbn", "year"}, v \in Kinds}
  \cup {[k \in DOMAIN ValidBook \ {f} |-> ValidBook[k]] : f \in {"title", "isbn", "year"}}
  \cup {[k \in DOMAIN ValidBook \cup {f} |-> IF k = f THEN v ELSE ValidBook[k]] :
          f \in {"pages", "description", "category_ids"}, v \in Kinds}

KindUpdates ==
  {[k \in {f} |-> v] :
     f \in {"title", "isbn", "year", "pages", "description", "category_ids"}, v \in Kinds}

NextKinds ==
  \/ CreateAuthor(KindAuthors)
  \/ CreateBook(KindBooks)
  \/ UpdateBook(KindUpdates)

\* create_book and update_book given values of every kind
SpecKinds == Init /\ [][NextKinds]_vars

(***************************************************************************)
(* delete_author running beside create_book: a worker deletes an Author in *)
(* three steps, the lookup and the book count, db.session.delete (which    *)
(* loads author.books for the cascade) and db.session.commit, and another  *)
(* worker may commit between any two of them.                              *)
(***************************************************************************)
\* services/author_service.py delete_author, the statements before safe_delete
delete_author_checks(view, author_id) ==
  IF get_author_by_id(view, author_id) # NoError THEN get_author_by_id(view, author_id)
  ELSE LET book_count == Cardinality(BooksOf(view, author_id)) IN
       IF book_count > 0 THEN ValidationErrorWith("", VInt(book_count)) ELSE NoError

\* base_service.py safe_delete, db.session.commit(): the Books that
\* db.session.delete loaded through Author.books are deleted, then the
\* Author; the default database (database.py, SQLite) does not enforce
\* books.author_id, so a Book committed since then is left as it is
safe_delete_commit(view, author_id, loaded) ==
  Committed([view EXCEPT !.authors = Delete(@, author_id),
                         !.books = [b \in DOMAIN @ \ loaded |-> @[b]]])

RaceBooks ==
  {[title |-> VStr(TitleA), isbn |-> VStr(isbn), year |-> VInt(2008),
    author_id |-> VInt(id)] : isbn \in {Isbn10A, Isbn10B}, id \in Ids}

RaceUpdates == {[author_id |-> VInt(id)] : id \in Ids}

BeginRaceCreateBook ==
  \E w \in Workers, data \in RaceBooks :
    Begin(w, "create_book", data, create_book_checks(db, data))

BeginDeleteAuthor ==
  \E w \in Workers, id \in Ids :
    Begin(w, "delete_author", [author_id |-> id, books |-> {}],
          delete_author_checks(db, id))

\* base_service.py safe_delete, db.session.delete(entity)
SessionDeleteAuthor ==
  \E w \in Workers :
    /\ inflight[w].pc = "checked"
    /\ inflight[w].op = "delete_author"
    /\ inflight' = [inflight EXCEPT ![w] =
                      [@ EXCEPT !.pc = "deleting",
                                !.data.books = BooksOf(db, inflight[w].data.author_id)]]
    /\ UNCHANGED <<db, sess, now, nops, request, result>>

EndDeleteAuthor ==
  \E w \in Workers :
    /\ inflight[w].pc = "deleting"
    /\ End(w, safe_delete_commit(db, inflight[w].data.author_id, inflight[w].data.books))

NextRace ==
  \/ CreateAuthor(ConcurrentAuthors)
  \/ BeginRaceCreateBook
  \/ EndCreateBook
  \/ BeginDeleteAuthor
  \/ SessionDeleteAuthor
  \/ EndDeleteAuthor
  \/ UpdateBook(RaceUpdates)

\* Two workers, a create_book or a delete_author each, and update_book calls
SpecRace == Init /\ [][NextRace]_vars

(***************************************************************************)
(* Values at the limits of the validators, written to a store that holds   *)
(* an Author and more Categories than a Book may have                      *)
(***************************************************************************)
\* the name of the i-th Category of the store: i + 1 letters
CategoryName(i) == [j \in 1..(i + 1) |-> "c"]

StoredStore ==
  [authors |-> <<[name |-> NameA, bio |-> VNone, country |-> VNone, created_at |-> 0]>>,
   books |-> <<>>,
   categories |-> [i \in 1..(MAX_CATEGORIES + 1) |->
                     [name |-> CategoryName(i), description |-> VNone, created_at |-> 0]]]

StoredNames ==
  {VStr(NamePadded), VStr(<<" ", "a", " ">>), VStr(<<" ">> \o NameDigits), VStr(Blank)}

StoredTitles ==
  {VStr(Blank), VStr(TitleB)}
  \cup {VStr(pre \o [i \in 1..MAX_TITLE_LENGTH |-> "a"]) : pre \in {<<>>, <<" ">>}}

StoredYears ==
  {VInt(MIN_YEAR - 1), VInt(MIN_YEAR), VInt(current_year), VStr(NatToStr(current_year + 1))}

StoredPages ==
  {VInt(MIN_PAGES - 1), VInt(MIN_PAGES), VInt(MAX_PAGES), VStr(NatToStr(MAX_PAGES + 1))}

StoredCategoryIds ==
  {VList([i \in 1..n |-> VInt(i)]) : n \in {1, MAX_CATEGORIES, MAX_CATEGORIES + 1}}

\* a record with every field at its limit
BoundaryBook ==
  [title |-> VStr([i \in 1..MAX_TITLE_LENGTH |-> "a"]), isbn |-> VStr(Isbn10A),
   year |-> VInt(current_year), author_id |-> VInt(1), pages |-> VInt(MAX_PAGES),
   category_ids |-> VList([i \in 1..MAX_CATEGORIES |-> VInt(i)])]

\* a complete valid record with one field replaced or added
StoredBooks ==
  {[ValidBook EXCEPT !.title = x] : x \in StoredTitles}
  \cup {[ValidBook EXCEPT !.year = x] : x \in StoredYears}
  \cup {[k \in DOMAIN ValidBook \cup {"pages"} |-> IF k = "pages" THEN x ELSE ValidBook[k]] :
          x \in StoredPages}
  \cup {[k \in DOMAIN ValidBook \cup {"category_ids"} |->
           IF k = "category_ids" THEN x ELSE ValidBook[k]] : x \in StoredCategoryIds}
  \cup {BoundaryBook}

StoredUpdates ==
  {[title |-> x] : x \in StoredTitles}
  \cup {[year |-> x] : x \in StoredYears}
  \cup {[pages |-> x] : x \in StoredPages}
  \cup {[category_ids |-> x] : x \in StoredCategoryIds}

StoredCreateCategory ==
  \E name \in StoredNames :
    /\ NextId(sess.categories) <= MAX_CATEGORIES + 1 + MaxId
    /\ Call("create_category", 0, [name |-> name], create_category(sess, [name |-> name]))

InitStored ==
  /\ db = StoredStore
  /\ sess = StoredStore
  /\ now = 0
  /\ nops = 0
  /\ request = NoRequest
  /\ result = NoResult
  /\ inflight = NoCalls

NextStored ==
  \/ CreateAuthor({[name |-> x] : x \in StoredNames})
  \/ UpdateAuthor({[name |-> x] : x \in StoredNames})
  \/ StoredCreateCategory
  \/ CreateBook(StoredBooks)
  \/ UpdateBook(StoredUpdates)

\* The services called with values on both sides of every limit
SpecStored == InitStored /\ [][NextStored]_vars

(***************************************************************************)
(* Properties                                                              *)
(***************************************************************************)

\* C1: an update_book call that fails with any error leaves the Book's fields
\* and categories, as every later call reads them and as a later commit
\* persists them, exactly as they were before the call.
C1_FailedUpdateChangesNothing ==
  [][(nops' # nops /\ result'.op = "update_book" /\ result'.err # NoError)
       => (sess' = sess /\ db' = db)]_vars

\* C2: in every reachable state, committed or as the session sees it, no two
\* stored Books have the same isbn.
C2_IsbnUnique ==
  \A view \in {db, sess} :
    \A b1, b2 \in DOMAIN view.books :
      b1 # b2 => view.books[b1].isbn # view.books[b2].isbn

C2_Witness ==
  /\ Cardinality(DOMAIN db.books) = 2
  /\ result.op \in {"create_book", "update_book"}
  /\ result.err.exc = "DuplicateISBNError"

\* C3 as stated: create_book with the isbn of an existing Book always fails
\* with the duplicate-ISBN error carrying that isbn, whatever the other fields
\* of the record, and the stored Books are unchanged.
C3_DuplicateIsbnWhateverTheRecord ==
  [][(/\ nops' # nops
      /\ result'.op = "create_book"
      /\ "isbn" \in DOMAIN result'.data
      /\ \E b \in DOMAIN sess.books : sess.books[b].isbn = PyStr(result'.data["isbn"]))
       => /\ result'.err = DuplicateISBNError(result'.data["isbn"])
          /\ sess'.books = sess.books
          /\ db'.books = db.books]_vars

\* C3 amended: create_book with the isbn of an existing Book always fails and
\* leaves the stored Books unchanged; when the record passes validation and its
\* author_id is that of an existing Author, the failure is the duplicate-ISBN
\* error carrying that isbn, whatever the other fields of the record.
C3_DuplicateIsbnRejected ==
  [][(/\ nops' # nops
      /\ result'.op = "create_book"
      /\ "isbn" \in DOMAIN result'.data
      /\ \E b \in DOMAIN sess.books : sess.books[b].isbn = PyStr(result'.data["isbn"]))
       => /\ result'.err # NoError
          /\ sess'.books = sess.books
          /\ db'.books = db.books
          /\ (/\ validate_book_data(result'.data, FALSE) = NoError
              /\ PkOf(result'.data["author_id"]) \in DOMAIN sess.authors)
               => result'.err = DuplicateISBNError(result'.data["isbn"])]_vars

C3_Witness ==
  /\ result.op = "create_book"
  /\ result.err.exc = "DuplicateISBNError"
  /\ \E b \in DOMAIN sess.books :
       /\ sess.books[b].isbn = PyStr(result.data["isbn"])
       /\ sess.books[b].title # strip(result.data["title"].v)
       /\ sess.books[b].year # result.data["year"].v

\* C4: delete_author on an existing Author that owns at least one Book fails
\* with a validation error naming the number of owned Books and removes
\* neither the Author nor any Book; on an existing Author that owns no Book it
\* succeeds, and get_author_by_id then fails with author-not-found.
C4_DeleteAuthorGuard ==
  [][(nops' # nops /\ result'.op = "delete_author" /\ result'.id \in DOMAIN sess.authors)
       => LET owned == {b \in DOMAIN sess.books : sess.books[b].author_id = result'.id}
          IN IF owned # {}
             THEN /\ result'.err.exc = "ValidationError"
                  /\ result'.err.info = VInt(Cardinality(owned))
                  /\ sess' = sess
                  /\ db' = db
             ELSE /\ result'.err = NoError
                  /\ get_author_by_id(sess', result'.id)
                       = AuthorNotFoundError(VInt(result'.id))
                  /\ result'.id \notin DOMAIN db'.authors
                  /\ sess'.books = sess.books]_vars

C4_Witness ==
  /\ result.op = "delete_author"
  /\ result.err.exc = "ValidationError"
  /\ result.err.info = VInt(2)
  /\ result.id \in DOMAIN db.authors
  /\ Cardinality(DOMAIN db.books) = 2

C6_MissingCategoryIdsRejected ==
  [][(/\ nops' # nops
      /\ result'.op \in {"create_book", "service.create_book"}
      /\ validate_book_data(result'.data, FALSE) = NoError
      /\ PkOf(result'.data["author_id"]) \in DOMAIN sess.authors
      /\ \A b \in DOMAIN sess.books : sess.books[b].isbn # PyStr(result'.data["isbn"])
      /\ "category_ids" \in DOMAIN result'.data
      /\ result'.data["category_ids"].t = "list"
      /\ \E x \in Items(result'.data["category_ids"].v) :
           PkOf(x) \notin DOMAIN sess.categories)
       => /\ result'.err.exc = "ValidationError"
          /\ result'.err.field = "category_ids"
          /\ result'.err.info =
               VList({x \in Items(result'.data["category_ids"].v) :
                        PkOf(x) \notin DOMAIN sess.categories})
          /\ sess'.books = sess.books
          /\ db'.books = db.books]_vars

\* C7: in every reachable state every category id associated with a stored
\* Book is the id of an existing Category; delete_category removes the
\* Category and its associations to Books and leaves the Books otherwise
\* unchanged.
C7_CategoriesOfBooksExist ==
  /\ [](\A view \in {db, sess} :
          \A b \in DOMAIN view.books : view.books[b].categories \subseteq DOMAIN view.categories)
  /\ [][(nops' # nops /\ result'.op = "delete_category" /\ result'.err = NoError)
          => /\ sess'.categories = [c \in DOMAIN sess.categories \ {result'.id} |->
                                      sess.categories[c]]
             /\ sess'.books = [b \in DOMAIN sess.books |->
                                 [sess.books[b] EXCEPT !.categories = @ \ {result'.id}]]
             /\ sess'.authors = sess.authors
             /\ db' = sess']_vars

C7_Witness ==
  /\ result.op = "delete_category"
  /\ result.err = NoError
  /\ result.wrote.books # {}
  /\ result.wrote.categories = {result.id}

\* C8 as stated: in every reachable state no two stored Categories have the
\* same name; create_category with a name fails with the duplicate-category
\* error, storing nothing, exactly when the trimmed name equals,
\* case-sensitively, the name of an existing Category, and otherwise stores
\* the trimmed name.
C8_DuplicateExactlyWhenNameTaken ==
  /\ [](\A view \in {db, sess} :
          \A c1, c2 \in DOMAIN view.categories :
            c1 # c2 => view.categories[c1].name # view.categories[c2].name)
  /\ [][(/\ nops' # nops
         /\ result'.op = "create_category"
         /\ "name" \in DOMAIN result'.data)
          => IF \E c \in DOMAIN sess.categories :
                  sess.categories[c].name = strip(result'.data["name"].v)
             THEN /\ result'.err = DuplicateCategoryError(result'.data["name"])
                  /\ sess' = sess
                  /\ db' = db
             ELSE /\ result'.err = NoError
                  /\ \E c \in DOMAIN sess'.categories \ DOMAIN sess.categories :
                       sess'.categories[c].name = strip(result'.data["name"].v)]_vars

\* C8 amended: in every reachable state no two stored Categories have the
\* same name; create_category with a record that passes validation fails
\* with the duplicate-category error, storing nothing, exactly when the
\* trimmed name equals, case-sensitively, the name of an existing Category,
\* and otherwise stores the trimmed name; a record that fails validation is
\* rejected with the validation error whatever its name.
C8_CategoryNameUnique ==
  /\ [](\A view \in {db, sess} :
          \A c1, c2 \in DOMAIN view.categories :
            c1 # c2 => view.categories[c1].name # view.categories[c2].name)
  /\ [][(nops' # nops /\ result'.op = "create_category")
          => IF validate_category_data(result'.data, FALSE) # NoError
             THEN /\ result'.err = validate_category_data(result'.data, FALSE)
                  /\ sess' = sess
                  /\ db' = db
             ELSE IF \E c \in DOMAIN sess.categories :
                  sess.categories[c].name = strip(result'.data["name"].v)
             THEN /\ result'.err = DuplicateCategoryError(result'.data["name"])
                  /\ sess' = sess
                  /\ db' = db
             ELSE /\ result'.err = NoError
                  /\ \E c \in DOMAIN sess'.categories \ DOMAIN sess.categories :
                       /\ sess'.categories[c].name = strip(result'.data["name"].v)
                       /\ DOMAIN sess'.categories = DOMAIN sess.categories \cup {c}
                  /\ \A c \in DOMAIN sess.categories :
                       sess'.categories[c] = sess.categories[c]
                  /\ db' = sess']_vars

C8_Witness ==
  /\ result.op = "create_category"
  /\ result.err.exc = "DuplicateCategoryError"
  /\ result.data["name"].v # strip(result.data["name"].v)
  /\ \E c \in DOMAIN db.categories : db.categories[c].name = strip(result.data["name"].v)


\* C9: in a list request page and per_page default to 1 and 10 when absent;
\* the request proceeds, with exactly the supplied integers, if and only if
\* page parses as an integer >= 1 and per_page as an integer in [1,100]; a
\* supplied value that is non-numeric or out of range fails with a validation
\* error tagged with its field and is never replaced by a default.
C9_InvalidPaginationNeverDefaulted ==
  [][(nops' # nops /\ result'.op = "get_books")
       => LET page == IF "page" \in DOMAIN request THEN PyInt(request["page"])
                      ELSE [ok |-> TRUE, v |-> 1]
              per_page == IF "per_page" \in DOMAIN request THEN PyInt(request["per_page"])
                          ELSE [ok |-> TRUE, v |-> 10]
              invalid == (IF page.ok /\ page.v >= 1 THEN {} ELSE {"page"}) \cup
                         (IF per_page.ok /\ per_page.v \in 1..100 THEN {}
                          ELSE {"per_page"})
          IN IF invalid = {}
             THEN /\ result'.err = NoError
                  /\ result'.ret.page = page.v
                  /\ result'.ret.per_page = per_page.v
             ELSE /\ result'.err.exc = "ValidationError"
                  /\ result'.err.field \in invalid]_vars

\* C10: for every store and every valid page and per_page, get_all_books
\* returns total = the number of Books matching the filters, pages =
\* ceil(total / per_page), min(per_page, max(0, total - (page-1)*per_page))
\* items, has_next exactly when page < pages and has_prev exactly when
\* page > 1.
C10_PageOfMatchingBooks ==
  [][(nops' # nops /\ result'.op = "get_books" /\ result'.err = NoError)
       => LET ret == result'.ret
              matching == {b \in DOMAIN sess.books :
                             "category" \in DOMAIN request =>
                               \E c \in sess.books[b].categories :
                                 ilike(sess.categories[c].name,
                                       <<"%">> \o request["category"].v \o <<"%">>)}
              total == Cardinality(matching)
              rest == total - (ret.page - 1) * ret.per_page
          IN /\ ret.total = total
             /\ ret.pages = Ceil(total, ret.per_page)
             /\ Len(ret.books) = Min(ret.per_page, IF rest > 0 THEN rest ELSE 0)
             /\ ret.has_next = (ret.page < ret.pages)
             /\ ret.has_prev = (ret.page > 1)]_vars


\* C11: get_all_books returns exactly the Books that satisfy every supplied
\* filter at once (the search clause AND the category clause AND year = the
\* given year AND author_id = the given id); a filter that is not supplied
\* excludes no Book.
C11_FiltersCombineWithAnd ==
  [][(nops' # nops /\ result'.op = "get_books" /\ result'.err = NoError)
       => LET supplied(k) == k \in DOMAIN request
              pattern(k) == <<"%">> \o request[k].v \o <<"%">>
              satisfies(b) ==
                /\ supplied("search") =>
                     \/ ilike(sess.books[b].title, pattern("search"))
                     \/ ilike(sess.authors[sess.books[b].author_id].name, pattern("search"))
                /\ supplied("category") =>
                     \E c \in sess.books[b].categories :
                       ilike(sess.categories[c].name, pattern("category"))
                /\ supplied("year") => sess.books[b].year = PyInt(request["year"]).v
                /\ supplied("author_id") =>
                     sess.books[b].author_id = PyInt(request["author_id"]).v
          IN {result'.ret.books[i] : i \in 1..Len(result'.ret.books)}
               = {b \in DOMAIN sess.books : satisfies(b)}]_vars

\* C12: listing Books with search = s, and no other filter, returns only,
\* and all of, the Books whose title or whose author's name contains s as a
\* substring without regard to case, every character of s standing for
\* itself.
C12_SearchIsLiteralSubstring ==
  [][(/\ nops' # nops
      /\ result'.op = "get_books"
      /\ result'.err = NoError
      /\ DOMAIN request = {"search"})
       => LET lower(str) == [i \in 1..Len(str) |-> Lower(str[i])]
              contains(str, sub) ==
                \E i \in 0..(Len(str) - Len(sub)) :
                  SubSeq(lower(str), i + 1, i + Len(sub)) = lower(sub)
              s == request["search"].v
          IN {result'.ret.books[i] : i \in 1..Len(result'.ret.books)}
               = {b \in DOMAIN sess.books :
                    \/ contains(sess.books[b].title, s)
                    \/ contains(sess.authors[sess.books[b].author_id].name, s)}]_vars

\* C13: a listing is ordered by creation time, most recent first, and with
\* no mutation in between the same request yields the same Books in the same
\* order on every repetition, also when Books have the same creation time.
C13_ListingOrderDeterministic ==
  [][(nops' # nops /\ result'.op = "get_books" /\ result'.err = NoError)
       => /\ \A i, j \in 1..Len(result'.ret.books) :
               i < j => sess.books[result'.ret.books[i]].created_at
                          >= sess.books[result'.ret.books[j]].created_at
          /\ (result.op = "get_books" /\ result.err = NoError)
               => result'.ret.books = result.ret.books]_vars


\* C14: validate_isbn accepts an input if and only if the input with hyphens
\* and spaces removed consists only of digits and has length exactly 10 or
\* 13; every other input fails with a validation error on field isbn.
C14_IsbnAcceptedIffTenOrThirteenDigits ==
  [][(nops' # nops /\ result'.op = "validate_isbn")
       => LET text == PyStr(request["isbn"])
              clean == SelectSeq(text, LAMBDA c : c \notin {"-", " "})
              digits == {"0", "1", "2", "3", "4", "5", "6", "7", "8", "9"}
          IN IF /\ \A i \in 1..Len(clean) : clean[i] \in digits
                /\ Len(clean) \in {10, 13}
             THEN result'.err = NoError
             ELSE /\ result'.err.exc = "ValidationError"
                  /\ result'.err.field = "isbn"]_vars

C14_Witness ==
  /\ result.op = "validate_isbn"
  /\ result.err = NoError
  /\ Len(result.data["isbn"].v) = 15
  /\ \E i \in 1..15 : result.data["isbn"].v[i] = "-"
  /\ \E i \in 1..15 : result.data["isbn"].v[i] = " "

\* C15: for every value of a year field present in the record, in create
\* mode and in update mode, validation passes the year if and only if the
\* value is an integer with 1000 <= year <= the current year; every other
\* present value, null and non-numeric values included, fails with a
\* validation error on field year.
C15_YearValidIffInRange ==
  [][(/\ nops' # nops
      /\ result'.op \in {"validate_book_data", "validate_book_data(is_update=True)"}
      /\ "year" \in DOMAIN request)
       => LET year == PyInt(request["year"])
          IN IF year.ok /\ year.v >= 1000 /\ year.v <= current_year
             THEN result'.err = NoError
             ELSE /\ result'.err.exc = "ValidationError"
                  /\ result'.err.field = "year"]_vars


\* C16: when two create_book calls with the same ISBN, or two
\* create_category calls with the same name, have both passed the existence
\* pre-check before either commits, exactly one of them commits; the other
\* is rejected at commit with the duplicate-ISBN (duplicate-category) error
\* of the pre-check, and the store holds exactly one entity with that key.
C16_LateDuplicateRejectedAtCommit ==
  /\ [](/\ \A b1, b2 \in DOMAIN db.books :
             b1 # b2 => db.books[b1].isbn # db.books[b2].isbn
        /\ \A c1, c2 \in DOMAIN db.categories :
             c1 # c2 => db.categories[c1].name # db.categories[c2].name)
  /\ [][\A w \in Workers :
          (inflight[w].pc = "checked" /\ inflight'[w].pc = "done")
            => LET call == inflight[w]
                   isbn == call.data["isbn"]
                   name == call.data["name"]
               IN IF call.op = "create_book"
                  THEN IF \E b \in DOMAIN db.books : db.books[b].isbn = isbn.v
                       THEN /\ inflight'[w].err = DuplicateISBNError(isbn)
                            /\ db' = db
                       ELSE /\ inflight'[w].err = NoError
                            /\ Cardinality({b \in DOMAIN db'.books :
                                              db'.books[b].isbn = isbn.v}) = 1
                  ELSE IF \E c \in DOMAIN db.categories :
                            db.categories[c].name = strip(name.v)
                       THEN /\ inflight'[w].err = DuplicateCategoryError(name)
                            /\ db' = db
                       ELSE /\ inflight'[w].err = NoError
                            /\ Cardinality({c \in DOMAIN db'.categories :
                                              db'.categories[c].name = strip(name.v)}) = 1]_vars

C16_Witness ==
  \E w1, w2 \in Workers :
    /\ inflight[w1].pc = "done"
    /\ inflight[w2].pc = "done"
    /\ inflight[w1].op = "create_book"
    /\ inflight[w2].op = "create_book"
    /\ inflight[w1].data["isbn"] = inflight[w2].data["isbn"]
    /\ inflight[w1].data["title"] # inflight[w2].data["title"]
    /\ inflight[w1].err = NoError
    /\ inflight[w2].err = DuplicateISBNError(inflight[w2].data["isbn"])
    /\ Cardinality(DOMAIN db.books) = 1


\* C17: when the commit of a create, update or delete call fails with a
\* persistence error, the call fails with the database error and the unit of
\* work is rolled back: every later operation reads the store as it was last
\* committed, and nothing of the call is committed.
C17_FailedCommitRolledBack ==
  [][(nops' # nops /\ result'.err.exc \notin {"none", "ValidationError",
        "BookNotFoundError", "AuthorNotFoundError", "CategoryNotFoundError",
        "DuplicateISBNError", "DuplicateCategoryError", "TypeError", "AttributeError"})
       => /\ result'.err = DatabaseError
          /\ sess' = db
          /\ db' = db]_vars

C17_Witness ==
  /\ result.op = "update_book"
  /\ result.err = DatabaseError
  /\ result.id \in DOMAIN db.books
  /\ DOMAIN result.data = {"title", "isbn"}
  /\ sess = db

\* C18: after a successful update_book whose record contains category_ids, the
\* Book's categories, in the session and in the committed store, are exactly
\* the Categories the list names, whatever the Book had before (none for an
\* empty list), and each of them is a stored Category; an update_book of a
\* stored Book whose list names an id of no stored Category fails.
C18_CategoriesReplaced ==
  [][(/\ nops' # nops
      /\ result'.op = "update_book"
      /\ "category_ids" \in DOMAIN result'.data)
       => LET named == {x.v : x \in Items(result'.data["category_ids"].v)}
          IN /\ result'.err = NoError
                  => /\ sess'.books[result'.id].categories = named
                     /\ db'.books[result'.id].categories = named
                     /\ named \subseteq DOMAIN sess.categories
                     /\ named \subseteq DOMAIN db'.categories
             /\ ~(named \subseteq DOMAIN sess.categories) => result'.err # NoError]_vars

C18_Witness ==
  /\ result.op = "update_book"
  /\ result.err = NoError
  /\ result.data = [category_ids |-> VList(<<VInt(2)>>)]
  /\ db.books[result.id].title = strip(TitleB)
  /\ db.books[result.id].categories = {2}
  /\ sess = db
  /\ nops = 5

\* C19: a create_book whose record passes validation, whose author_id is the
\* id of a stored Author, whose isbn is the isbn of no stored Book and whose
\* category_ids, when given, are all ids of stored Categories succeeds, and
\* the Book it stores has the stripped input title, the input isbn, year,
\* author_id and pages, a creation time, and exactly the requested
\* Categories (none when category_ids is absent).
C19_ValidCreateSucceeds ==
  [][(/\ nops' # nops
      /\ result'.op = "create_book"
      /\ validate_book_data(result'.data, FALSE) = NoError
      /\ PkOf(result'.data["author_id"]) \in DOMAIN db.authors
      /\ \A b \in DOMAIN db.books : db.books[b].isbn # PyStr(result'.data["isbn"])
      /\ "category_ids" \in DOMAIN result'.data
            => \A x \in Items(result'.data["category_ids"].v) :
                 PkOf(x) \in DOMAIN db.categories)
       => /\ result'.err = NoError
          /\ \E id \in DOMAIN db'.books \ DOMAIN db.books :
               LET book == db'.books[id]
                   data == result'.data
               IN /\ book.title = strip(data["title"].v)
                  /\ VStr(book.isbn) = data["isbn"]
                  /\ VInt(book.year) = data["year"]
                  /\ VInt(book.author_id) = data["author_id"]
                  /\ book.pages = Get(data, "pages")
                  /\ book.created_at \in 0..MaxTime
                  /\ book.categories =
                       IF "category_ids" \in DOMAIN data
                       THEN {PkOf(x) : x \in Items(data["category_ids"].v)}
                       ELSE {}]_vars

\* C20: delete_book of a stored Book succeeds whatever its categories and
\* removes it, and delete_book of an id of no stored Book fails with
\* BookNotFoundError and changes nothing; after the call that follows a
\* successful delete_book(id), whatever that call is, get_book_by_id(id)
\* fails with BookNotFoundError, no stored Book has the id, no listing
\* contains it, and the call, when it is an update_book or a delete_book of
\* the id, has failed with BookNotFoundError.
C20_DeletedBookStaysGone ==
  [][nops' # nops
       => /\ result'.op = "delete_book"
               => IF result'.id \in DOMAIN sess.books
                  THEN /\ result'.err = NoError
                       /\ result'.id \notin DOMAIN sess'.books
                       /\ result'.id \notin DOMAIN db'.books
                  ELSE /\ result'.err = BookNotFoundError(result'.id)
                       /\ sess' = sess
                       /\ db' = db
          /\ (result.op = "delete_book" /\ result.err = NoError)
               => /\ get_book_by_id(sess', result.id) = BookNotFoundError(result.id)
                  /\ result.id \notin DOMAIN db'.books
                  /\ (result'.op \in {"update_book", "delete_book"}
                        /\ result'.id = result.id)
                       => result'.err = BookNotFoundError(result.id)
                  /\ \A listing \in get_all_books(sess', VInt(DEFAULT_PAGE),
                                                   VInt(DEFAULT_PER_PAGE),
                                                   VNone, VNone, VNone, VNone) :
                        result.id \notin Items(listing.ret.books)]_vars

\* C21: create_book fails with the error of the first check that does not
\* hold, in the order validation, author exists, isbn unused, category ids
\* exist: an invalid record fails with its validation error whatever the
\* author; a valid record of a missing author fails with AuthorNotFoundError
\* whatever the isbn; a valid record of a stored author with the isbn of a
\* stored Book fails with DuplicateISBNError whatever the category ids.
C21_FirstFailingCheckDecides ==
  [][(nops' # nops /\ result'.op = "create_book")
       => LET data == result'.data
              invalid == validate_book_data(data, FALSE)
          IN IF invalid # NoError THEN result'.err = invalid
             ELSE IF PkOf(data["author_id"]) \notin DOMAIN sess.authors
             THEN result'.err = AuthorNotFoundError(data["author_id"])
             ELSE IF \E b \in DOMAIN sess.books : sess.books[b].isbn = PyStr(data["isbn"])
             THEN result'.err = DuplicateISBNError(data["isbn"])
             ELSE IF /\ "category_ids" \in DOMAIN data
                     /\ \E x \in Items(data["category_ids"].v) :
                          PkOf(x) \notin DOMAIN sess.categories
             THEN result'.err.exc = "ValidationError" /\ result'.err.field = "category_ids"
             ELSE TRUE]_vars

C21_Witness ==
  /\ result.op = "create_book"
  /\ result.err = DuplicateISBNError(VStr(Isbn10A))
  /\ PkOf(result.data["author_id"]) \in DOMAIN sess.authors
  /\ "category_ids" \in DOMAIN result.data
  /\ DOMAIN sess.categories = {}

\* C22: update_book of a book_id of no stored Book fails with the validation
\* error of the record when the record is invalid and with BookNotFoundError
\* when it is valid, and changes neither the session nor the committed store.
C22_ValidationBeforeLookup ==
  [][(nops' # nops /\ result'.op = "update_book" /\ result'.id \notin DOMAIN sess.books)
       => /\ result'.err = IF validate_book_data(result'.data, TRUE) # NoError
                           THEN validate_book_data(result'.data, TRUE)
                           ELSE BookNotFoundError(result'.id)
          /\ sess' = sess
          /\ db' = db]_vars

C22_Witness ==
  /\ result.op = "update_book"
  /\ result.id \notin DOMAIN sess.books
  /\ result.id \notin DOMAIN db.books
  /\ result.data = [year |-> VInt(999)]
  /\ result.err.exc = "ValidationError"
  /\ result.err.field = "year"

\* C23: update_book of a stored Book with a valid record that has an isbn
\* fails with DuplicateISBNError, the Book keeping its isbn, exactly when
\* another Book has that isbn; the Book's own isbn and an isbn of no other
\* Book are never reported as duplicates, and a record of the isbn alone then
\* succeeds and the Book has the supplied isbn.
C23_IsbnCheckedAgainstOtherBooks ==
  [][(/\ nops' # nops
      /\ result'.op = "update_book"
      /\ result'.id \in DOMAIN sess.books
      /\ "isbn" \in DOMAIN result'.data
      /\ validate_book_data(result'.data, TRUE) = NoError)
       => LET id == result'.id
              isbn == PyStr(result'.data["isbn"])
              others == {b \in DOMAIN sess.books \ {id} : sess.books[b].isbn = isbn}
          IN IF others # {}
             THEN /\ result'.err = DuplicateISBNError(result'.data["isbn"])
                  /\ sess'.books[id].isbn = sess.books[id].isbn
                  /\ db'.books[id].isbn = db.books[id].isbn
             ELSE /\ result'.err.exc # "DuplicateISBNError"
                  /\ DOMAIN result'.data = {"isbn"}
                       => /\ result'.err = NoError
                          /\ sess'.books[id].isbn = isbn
                          /\ db'.books[id].isbn = isbn]_vars

C23_Witness ==
  /\ nops = 3
  /\ result.op = "update_book"
  /\ result.data = [isbn |-> VStr(Isbn10A)]
  /\ result.err = NoError
  /\ result.id \in DOMAIN db.books
  /\ db.books[result.id].isbn = Isbn10A

\* C24: validate_book_data reports the failure of the first check that fails,
\* and no failure when none does, in the order: in create mode the required
\* fields title, isbn, year, author_id, then in both modes the present fields
\* title, isbn, year, pages, description, category_ids.
C24_FirstFailureInFixedOrder ==
  (result.op \in {"validate_book_data", "validate_book_data(is_update=True)"})
    => LET data == result.data
           present(field, err) == IF field \in DOMAIN data THEN err ELSE NoError
           required == IF result.op = "validate_book_data"
                       THEN <<validate_required_field(data, "title"),
                              validate_required_field(data, "isbn"),
                              validate_required_field(data, "year"),
                              validate_required_field(data, "author_id")>>
                       ELSE <<>>
           checks == required \o
                     <<present("title", validate_title(Get(data, "title"))),
                       present("isbn", validate_isbn(Get(data, "isbn"))),
                       present("year", validate_year(Get(data, "year"))),
                       present("pages", validate_pages(Get(data, "pages"))),
                       present("description", validate_description(Get(data, "description"))),
                       present("category_ids",
                               validate_category_ids(Get(data, "category_ids")))>>
           failing == {k \in 1..Len(checks) : checks[k] # NoError}
       IN IF failing = {} THEN result.err = NoError
          ELSE \E k \in failing : /\ \A j \in failing : k <= j
                                   /\ result.err = checks[k]

C24_Witness ==
  /\ result.op = "validate_book_data"
  /\ DOMAIN result.data = DOMAIN FieldValues
  /\ result.data["title"] = FieldValues["title"]["valid"]
  /\ result.data["isbn"] = FieldValues["isbn"]["invalid"]
  /\ result.data["year"] = FieldValues["year"]["invalid"]
  /\ result.data["category_ids"] = FieldValues["category_ids"]["invalid"]
  /\ result.err.exc = "ValidationError"
  /\ result.err.field = "isbn"

\* C25: the length check of a string field measures the stripped value for
\* the minimum and for the maximum: a Book title is accepted exactly when its
\* stripped length is between 1 and MAX_TITLE_LENGTH.
C25_LengthOfStrippedValue ==
  (/\ result.op = "validate_book_data(is_update=True)"
   /\ DOMAIN result.data = {"title"}
   /\ result.data["title"].t = "str")
    => (result.err = NoError
          <=> Len(strip(result.data["title"].v)) \in 1..MAX_TITLE_LENGTH)

\* C26: in every reachable state no two stored Books have isbns that are
\* equal once hyphens and spaces are removed.
C26_StrippedIsbnUnique ==
  \A view \in {db, sess} :
    \A b1, b2 \in DOMAIN view.books :
      b1 # b2 => remove(remove(view.books[b1].isbn, "-"), " ")
                   # remove(remove(view.books[b2].isbn, "-"), " ")

\* C27: in a listing with a category filter no Book is twice among the items,
\* and total and pages are those of the set of Books that have a Category
\* whose name matches, however many of a Book's Categories match.
C27_BookOfSeveralCategoriesCountedOnce ==
  [][(/\ nops' # nops
      /\ result'.op = "get_books"
      /\ result'.err = NoError
      /\ "category" \in DOMAIN request)
       => LET ret == result'.ret
              matches(b) == {c \in sess.books[b].categories :
                               ilike(sess.categories[c].name,
                                     <<"%">> \o request["category"].v \o <<"%">>)}
              distinct == {b \in DOMAIN sess.books : matches(b) # {}}
          IN /\ \A i, j \in 1..Len(ret.books) : ret.books[i] = ret.books[j] => i = j
             /\ Items(ret.books) \subseteq distinct
             /\ ret.total = Cardinality(distinct)
             /\ ret.pages = Ceil(Cardinality(distinct), ret.per_page)]_vars

\* C28: every create and update call of the services either succeeds or
\* fails with a domain error (validation, not found, duplicate, database
\* error), whatever the kind of the value of each field of its record.
C28_OnlyDomainErrors ==
  [][(nops' # nops /\ result'.op \in {"create_book", "update_book", "create_author"})
       => result'.err.exc \in {"none", "ValidationError", "BookNotFoundError",
                               "AuthorNotFoundError", "CategoryNotFoundError",
                               "DuplicateISBNError", "DuplicateCategoryError",
                               "DatabaseError"}]_vars

\* C29: under every interleaving of delete_author, create_book and
\* update_book calls, every stored Book's author_id is the id of a stored
\* Author, and no step of a delete_author call removes a Book.
C29_BooksKeepTheirAuthor ==
  [][/\ \A b \in DOMAIN db'.books : db'.books[b].author_id \in DOMAIN db'.authors
     /\ \A w \in Workers :
          (inflight[w].op = "delete_author" /\ inflight'[w] # inflight[w])
            => DOMAIN db.books \subseteq DOMAIN db'.books]_vars

\* C30: in every state, committed or held by the session, every Book has a
\* non-blank title of at most MAX_TITLE_LENGTH characters without
\* surrounding whitespace, a year from MIN_YEAR to the current year, pages
\* absent or from MIN_PAGES to MAX_PAGES and at most MAX_CATEGORIES
\* categories, and every Author and Category name is stored without
\* surrounding whitespace, has at least 2 characters and is not all digits.
C30_StoredEntitiesValid ==
  \A view \in {db, sess} :
    /\ \A b \in DOMAIN view.books :
         LET book == view.books[b] IN
         /\ strip(book.title) # <<>>
         /\ Len(book.title) <= MAX_TITLE_LENGTH
         /\ strip(book.title) = book.title
         /\ book.year \in MIN_YEAR..current_year
         /\ \/ book.pages = VNone
            \/ book.pages.t = "int" /\ book.pages.v \in MIN_PAGES..MAX_PAGES
         /\ Cardinality(book.categories) <= MAX_CATEGORIES
    /\ \A a \in DOMAIN view.authors :
         LET name == view.authors[a].name IN
         strip(name) = name /\ Len(name) >= AUTHOR_MIN_NAME_LENGTH /\ ~isdigit(name)
    /\ \A c \in DOMAIN view.categories :
         LET name == view.categories[c].name IN
         strip(name) = name /\ Len(name) >= CATEGORY_MIN_NAME_LENGTH /\ ~isdigit(name)

\* a Book with every field at its limit is stored, and an Author has just
\* been created from a name given with surrounding whitespace
C30_Witness ==
  /\ \E b \in DOMAIN db.books :
       /\ Len(db.books[b].title) = MAX_TITLE_LENGTH
       /\ db.books[b].year = current_year
       /\ db.books[b].pages = VInt(MAX_PAGES)
       /\ Cardinality(db.books[b].categories) = MAX_CATEGORIES
  /\ result.op = "create_author"
  /\ result.err = NoError
  /\ result.data["name"] = VStr(NamePadded)
  /\ \E a \in result.wrote.authors : db.authors[a].name = NameA

====
